---- MODULE Spec2Model ----
(***************************************************************************)
(* Request gate of astral-core: the Next.js middleware (rate limiting,     *)
(* CORS, security headers, bot / size / URL filters) and the helpers of    *)
(* src/lib/security.ts that it calls.                                      *)
(*                                                                         *)
(* Strings are TLA+ strings; header values are strings, an absent header   *)
(* or a null result is NULL.  Time is Date.now() in milliseconds, counted  *)
(* from the start of the process so that it fits TLC's integers.           *)
(***************************************************************************)
EXTENDS Integers, Sequences, FiniteSets, TLC

VARIABLES
    now,      \* the value Date.now() returns
    store,    \* rateLimitStore: key -> [count, resetTime]
    env,      \* env.NODE_ENV and env.NEXT_PUBLIC_APP_URL
    limiter,  \* the RateLimitConfig of the limiter when it is used on its own
    req,      \* the request handled last
    at,       \* the time at which it was handled
    before,   \* the record of its key before it was handled (NoRecord: none)
    resp,     \* the response returned for it (NoResponse: the limiter's null)
    audit,    \* the security events logged while handling it
    nth,      \* key -> calls of the limiter on its own since the key's record was created
    ticks,    \* clock advances so far
    fault,    \* the place at which an exception was raised while handling it (NoFault: nowhere)
    errors,   \* what console.error printed while handling it
    calls,    \* invocation -> where it is inside the limiter, with the request, time and record it read
    accepted, \* key -> requests the limiter on its own accepted in the window of the key's record
    earlier,  \* an earlier verdict of the threat checks, kept for comparison (NoVerdict: none)
    accepts,  \* traffic class -> the times at which the gate let its latest requests through
    called,   \* verify-deployment.js: the function the run calls (main, or an exported one)
    baseUrl,  \* its base URL: process.argv[2], or the argument of the exported function
    pc,       \* the await at which the script stands, or how it ended
    test,     \* the index in TESTS of the test that runTest runs
    attempt,  \* the attempt of that test that is under way
    tried,    \* what makeRequest gave the attempts of that test so far
    results,  \* the results of verifyDeployment
    exitCode, \* the code given to process.exit (-1: not called)
    phases    \* the phases of the script started so far, in order

gateVars == <<now, store, env, limiter, req, at, before, resp, audit, nth, ticks, fault, errors, calls, accepted, earlier, accepts>>

verifierVars == <<called, baseUrl, pc, test, attempt, tried, results, exitCode, phases>>

vars == <<gateVars, verifierVars>>

\* null and undefined.  Where a string is expected (a header, a field of the
\* request, a text of a response) a lone line feed stands for it: no header
\* has that value, since Headers strips the line feeds around a value and
\* rejects one inside it, and no method, path or address holds a line feed.
NULL == "\n"

-----------------------------------------------------------------------------
(* Bounds of the model *)

\* clock advances in one run
MaxTicks == 2
\* a client is followed up to this count of its record (gate, all request shapes)
MaxCount == 6
\* a client is followed up to this many calls in one window (limiter on its own)
MaxNth == 7
\* clients that send a request in one run (identity of the client)
MaxClients == 2

-----------------------------------------------------------------------------
(* The strings the requests of the model are made of *)

\* pathnames as request.nextUrl.pathname gives them: the URL parser has
\* resolved the dot segments (/a/../b is /b), so a ".." is left only inside
\* a segment, as in ..%2f
ModelPaths ==
    { "/", "/admin/x", "/moderator/x", "/api", "/api/users", "/api/auth/login",
      "/api/robots", "/api/sitemap",
      "/etc/passwd", "/api/auth/..%2f..%2fetc/passwd", "/api/..%2fetc/passwd" }

ModelUserAgents == {"", "<null>", "Mozilla/5.0", "Googlebot", "curl-scraper/1.0"}

ModelContentLengths ==
    {"512", "10485760", "10485761", "11000000", "0xA00001", "+11000000", "-5", "\f 11000000", "1e9", "abc"}

-----------------------------------------------------------------------------
(* String helpers: what String.prototype.startsWith, RegExp.test on a      *)
(* literal pattern, split(',')[0], trim and parseInt do.                   *)

StartsWith(s, p) == Len(s) >= Len(p) /\ SubSeq(s, 1, Len(p)) = p

Includes(s, p) ==
    \E i \in 1..(Len(s) - Len(p) + 1) : SubSeq(s, i, i + Len(p) - 1) = p

CharAt(s, i) == SubSeq(s, i, i)

\* the lower-case letter of a letter of ASCII: a regular expression with the
\* flag i and a pattern of ASCII letters matches no other letter (the Kelvin
\* sign does not match /k/i without the flag u)
LowerChar(c) ==
    CASE c = "A" -> "a" [] c = "B" -> "b" [] c = "C" -> "c" [] c = "D" -> "d"
      [] c = "E" -> "e" [] c = "F" -> "f" [] c = "G" -> "g" [] c = "H" -> "h"
      [] c = "I" -> "i" [] c = "J" -> "j" [] c = "K" -> "k" [] c = "L" -> "l"
      [] c = "M" -> "m" [] c = "N" -> "n" [] c = "O" -> "o" [] c = "P" -> "p"
      [] c = "Q" -> "q" [] c = "R" -> "r" [] c = "S" -> "s" [] c = "T" -> "t"
      [] c = "U" -> "u" [] c = "V" -> "v" [] c = "W" -> "w" [] c = "X" -> "x"
      [] c = "Y" -> "y" [] c = "Z" -> "z" [] OTHER -> c

RECURSIVE ToLower(_)
ToLower(s) == IF Len(s) = 0 THEN "" ELSE LowerChar(CharAt(s, 1)) \o ToLower(SubSeq(s, 2, Len(s)))

\* the characters of ASCII by their code, 1 to 127 without 96 (the grave
\* accent cannot be written in a string of a module)
Ascii ==
    LET low  == << "", "", "", "", "", "", "", "", "\t", "\n", "", "\f",
                 "\r", "", "", "", "", "", "", "", "", "", "", "",
                 "", "", "", "", "", "", "", " ", "!", "\"", "#", "$",
                 "%", "&", "'", "(", ")", "*", "+", ",", "-", ".", "/", "0",
                 "1", "2", "3", "4", "5", "6", "7", "8", "9", ":", ";", "<",
                 "=", ">", "?", "@", "A", "B", "C", "D", "E", "F", "G", "H",
                 "I", "J", "K", "L", "M", "N", "O", "P", "Q", "R", "S", "T",
                 "U", "V", "W", "X", "Y", "Z", "[", "\\", "]", "^", "_" >>
        high == << "a", "b", "c", "d", "e", "f", "g", "h", "i", "j", "k", "l",
                 "m", "n", "o", "p", "q", "r", "s", "t", "u", "v", "w", "x",
                 "y", "z", "{", "|", "}", "~", "" >>
    IN  [n \in (1..95) \cup (97..127) |-> IF n <= 95 THEN low[n] ELSE high[n - 96]]

\* String.prototype.toLowerCase on one character, for the characters of
\* ASCII and of Latin-1 from U+00A0 on: a capital letter gives its small
\* letter (32 further on), any other of these characters gives itself.  The
\* operator is not defined on a character outside them (the Kelvin sign, the
\* Greek capitals and their final sigma, U+1E9E)
toLowerCaseChar(c) ==
    LET latin1 == { " ", "¡", "¢", "£", "¤", "¥", "¦", "§", "¨", "©", "ª", "«", "¬",
                       "­", "®", "¯", "°", "±", "²", "³", "´", "µ", "¶", "·", "¸", "¹",
                       "º", "»", "¼", "½", "¾", "¿", "×", "ß", "à", "á", "â", "ã", "ä",
                       "å", "æ", "ç", "è", "é", "ê", "ë", "ì", "í", "î", "ï", "ð", "ñ",
                       "ò", "ó", "ô", "õ", "ö", "÷", "ø", "ù", "ú", "û", "ü", "ý", "þ",
                       "ÿ" }
    IN  CASE c = "À" -> "à" [] c = "Á" -> "á" [] c = "Â" -> "â" [] c = "Ã" -> "ã"
          [] c = "Ä" -> "ä" [] c = "Å" -> "å" [] c = "Æ" -> "æ" [] c = "Ç" -> "ç"
          [] c = "È" -> "è" [] c = "É" -> "é" [] c = "Ê" -> "ê" [] c = "Ë" -> "ë"
          [] c = "Ì" -> "ì" [] c = "Í" -> "í" [] c = "Î" -> "î" [] c = "Ï" -> "ï"
          [] c = "Ð" -> "ð" [] c = "Ñ" -> "ñ" [] c = "Ò" -> "ò" [] c = "Ó" -> "ó"
          [] c = "Ô" -> "ô" [] c = "Õ" -> "õ" [] c = "Ö" -> "ö" [] c = "Ø" -> "ø"
          [] c = "Ù" -> "ù" [] c = "Ú" -> "ú" [] c = "Û" -> "û" [] c = "Ü" -> "ü"
          [] c = "Ý" -> "ý" [] c = "Þ" -> "þ"
          [] c \in latin1 \/ \E n \in DOMAIN Ascii : Ascii[n] = c -> LowerChar(c)

\* String.prototype.toLowerCase, for the strings of those characters
RECURSIVE toLowerCase(_)
toLowerCase(s) ==
    IF Len(s) = 0 THEN "" ELSE toLowerCaseChar(CharAt(s, 1)) \o toLowerCase(SubSeq(s, 2, Len(s)))

\* /p/i.test(s) for a pattern p of plain lower-case characters
TestI(s, p) == Includes(ToLower(s), p)

\* /a.*b/i.test(s): a, then any characters, then b
TestIThen(s, a, b) ==
    LET l == ToLower(s) IN
    \E i \in 1..(Len(l) - Len(a) + 1) :
        /\ SubSeq(l, i, i + Len(a) - 1) = a
        /\ Includes(SubSeq(l, i + Len(a), Len(l)), b)

\* the WhiteSpace and LineTerminator characters of ECMAScript: tab, line
\* feed, vertical tab (U+000B), form feed, carriage return, space, no-break
\* space (U+00A0), U+1680 and the byte order mark (U+FEFF); the remaining
\* ones (U+2000 to U+200A, U+2028, U+2029, U+202F, U+205F, U+3000) cannot
\* be written in a string of a module
IsSpace(c) == c \in {"\t", "\n", "", "\f", "\r", " ", " ", " ", "﻿"}

RECURSIVE TrimStart(_)
TrimStart(s) ==
    IF Len(s) > 0 /\ IsSpace(CharAt(s, 1)) THEN TrimStart(SubSeq(s, 2, Len(s))) ELSE s

RECURSIVE TrimEnd(_)
TrimEnd(s) ==
    IF Len(s) > 0 /\ IsSpace(CharAt(s, Len(s))) THEN TrimEnd(SubSeq(s, 1, Len(s) - 1)) ELSE s

Trim(s) == TrimEnd(TrimStart(s))

\* s.split(',')[0]
RECURSIVE FirstField(_)
FirstField(s) ==
    IF Len(s) = 0 \/ CharAt(s, 1) = "," THEN ""
    ELSE CharAt(s, 1) \o FirstField(SubSeq(s, 2, Len(s)))

\* the value of a digit in a radix up to 16, -1 for any other character
DigitValue(c) ==
    CASE c = "0" -> 0 [] c = "1" -> 1 [] c = "2" -> 2 [] c = "3" -> 3 [] c = "4" -> 4
      [] c = "5" -> 5 [] c = "6" -> 6 [] c = "7" -> 7 [] c = "8" -> 8 [] c = "9" -> 9
      [] c \in {"a", "A"} -> 10 [] c \in {"b", "B"} -> 11 [] c \in {"c", "C"} -> 12
      [] c \in {"d", "D"} -> 13 [] c \in {"e", "E"} -> 14 [] c \in {"f", "F"} -> 15
      [] OTHER -> -1

\* the largest integer of the model: a Number above it is held as MaxNumber
MaxNumber == (2^30 - 1) * 2 + 1

\* a Number: NaN, or an integer
NaN == [nan |-> TRUE, value |-> 0]

Number(n) == [nan |-> FALSE, value |-> n]

\* x > n: false for NaN
Greater(x, n) == ~ x.nan /\ x.value > n

IsDigit(c, radix) == DigitValue(c) >= 0 /\ DigitValue(c) < radix

RECURSIVE Digits(_, _, _, _)
\* the value of the leading digits of s in the radix, NaN when there is none
Digits(s, radix, acc, seen) ==
    IF Len(s) = 0 \/ ~ IsDigit(CharAt(s, 1), radix)
    THEN (IF seen THEN Number(acc) ELSE NaN)
    ELSE LET d == DigitValue(CharAt(s, 1)) IN
         Digits(SubSeq(s, 2, Len(s)), radix,
                IF acc > (MaxNumber - d) \div radix THEN MaxNumber ELSE acc * radix + d, TRUE)

\* parseInt(s): leading white space, a sign, the prefix 0x or 0X of radix
\* 16, then the digits of the radix; what follows them is ignored
ParseInt(s) ==
    LET t        == TrimStart(s)
        signed   == Len(t) > 0 /\ CharAt(t, 1) \in {"+", "-"}
        negative == Len(t) > 0 /\ CharAt(t, 1) = "-"
        u        == IF signed THEN SubSeq(t, 2, Len(t)) ELSE t
        hex      == Len(u) >= 2 /\ SubSeq(u, 1, 2) \in {"0x", "0X"}
        parsed   == IF hex THEN Digits(SubSeq(u, 3, Len(u)), 16, 0, FALSE)
                           ELSE Digits(u, 10, 0, FALSE)
    IN  IF parsed.nan THEN NaN
        ELSE Number(IF negative THEN - parsed.value ELSE parsed.value)

\* Math.ceil(n / d) for d > 0 (\div rounds down, also for a negative n)
Ceil(n, d) == -((-n) \div d)

-----------------------------------------------------------------------------
(* Responses and records *)

\* rateLimitStore.get(key) of a key without a record
NoRecord == [count |-> 0, resetTime |-> -1]

\* Headers: the names that are set, each with its value
EmptyHeaders == [k \in {} |-> NULL]

\* Headers.set(k, v)
SetHeader(h, k, v) == [x \in DOMAIN h \cup {k} |-> IF x = k THEN v ELSE h[x]]

\* Headers.get(k)
GetHeader(h, k) == IF k \in DOMAIN h THEN h[k] ELSE NULL

NoBody == [text |-> NULL, error |-> NULL, retryAfter |-> -1]

\* the limiter's null result, and the response variable before any request
NoResponse == [status |-> 0, headers |-> EmptyHeaders, body |-> NoBody]

-----------------------------------------------------------------------------
(* src/lib/security.ts *)

\* a store of one record: setting a key drops the records of the other keys
StorePut_Single(st, key, record) == [k \in {key} |-> record]

\* rateLimitStore.set(key, record)
StorePut(st, key, record) ==
    [k \in DOMAIN st \cup {key} |-> IF k = key THEN record ELSE st[k]]

\* x-real-ip looked at before x-forwarded-for
getClientIP_RealIpFirst(r) ==
    IF r.realIp # NULL /\ r.realIp # "" THEN r.realIp
    ELSE IF r.xff # NULL /\ r.xff # "" THEN Trim(FirstField(r.xff))
    ELSE IF r.cfIp # NULL /\ r.cfIp # "" THEN r.cfIp
    ELSE IF r.ip # NULL /\ r.ip # "" THEN r.ip
    ELSE "unknown"

\* getClientIP(request); a header that is absent or empty is falsy
getClientIP(r) ==
    IF r.xff # NULL /\ r.xff # "" THEN Trim(FirstField(r.xff))
    ELSE IF r.realIp # NULL /\ r.realIp # "" THEN r.realIp
    ELSE IF r.cfIp # NULL /\ r.cfIp # "" THEN r.cfIp
    ELSE IF r.ip # NULL /\ r.ip # "" THEN r.ip
    ELSE "unknown"

RateLimitKey(r) == "rate_limit:" \o getClientIP(r)

\* now > record.resetTime: the record's window is over
WindowOver(record, t) == t > record.resetTime

\* the budget is used up only once it is exceeded
OverLimit_OffByOne(record, config) == record.count > config.maxRequests

\* record.count >= config.maxRequests: the budget is used up
OverLimit(record, config) == record.count >= config.maxRequests

\* the seconds rounded down instead of up
RetryAfter_Floor(record, t) == (record.resetTime - t) \div 1000

\* Math.ceil((record.resetTime - now) / 1000)
RetryAfter(record, t) == Ceil(record.resetTime - t, 1000)

\* the NextResponse.json(...) of a rejection
TooManyRequests(record, config, t) ==
    [ status  |-> 429,
      headers |-> [h \in {"Retry-After", "X-RateLimit-Limit", "X-RateLimit-Remaining", "X-RateLimit-Reset"} |->
                     CASE h = "Retry-After"           -> ToString(RetryAfter(record, t))
                       [] h = "X-RateLimit-Limit"     -> ToString(config.maxRequests)
                       [] h = "X-RateLimit-Remaining" -> "0"
                       [] h = "X-RateLimit-Reset"     -> ToString(record.resetTime)],
      body    |-> [ text       |-> NULL,
                    error      |-> IF config.message # NULL /\ config.message # ""
                                   THEN config.message ELSE "Too many requests",
                    retryAfter |-> RetryAfter(record, t) ] ]

\* every call sweeps the store: the expired records of the other keys go
rateLimit_Sweeping(config, r, st, t) ==
    LET key  == RateLimitKey(r)
        kept == [k \in {k \in DOMAIN st : k = key \/ ~ WindowOver(st[k], t)} |-> st[k]]
    IN
    IF key \notin DOMAIN st \/ WindowOver(st[key], t)
    THEN [ store    |-> StorePut(kept, key, [count |-> 1, resetTime |-> t + config.windowMs]),
           response |-> NoResponse ]
    ELSE IF OverLimit(st[key], config)
    THEN [ store    |-> kept,
           response |-> TooManyRequests(st[key], config, t) ]
    ELSE [ store    |-> StorePut(kept, key, [st[key] EXCEPT !.count = @ + 1]),
           response |-> NoResponse ]

\* rejected requests are counted too
rateLimit_CountRejected(config, r, st, t) ==
    LET key == RateLimitKey(r) IN
    IF key \notin DOMAIN st \/ WindowOver(st[key], t)
    THEN [ store    |-> StorePut(st, key, [count |-> 1, resetTime |-> t + config.windowMs]),
           response |-> NoResponse ]
    ELSE [ store    |-> StorePut(st, key, [st[key] EXCEPT !.count = @ + 1]),
           response |-> IF OverLimit(st[key], config)
                        THEN TooManyRequests(st[key], config, t)
                        ELSE NoResponse ]

\* a sliding window: every accepted request moves the reset time
rateLimit_Sliding(config, r, st, t) ==
    LET key == RateLimitKey(r) IN
    IF key \notin DOMAIN st \/ WindowOver(st[key], t)
    THEN [ store    |-> StorePut(st, key, [count |-> 1, resetTime |-> t + config.windowMs]),
           response |-> NoResponse ]
    ELSE IF OverLimit(st[key], config)
    THEN [ store    |-> st,
           response |-> TooManyRequests(st[key], config, t) ]
    ELSE [ store    |-> StorePut(st, key, [count |-> st[key].count + 1,
                                           resetTime |-> t + config.windowMs]),
           response |-> NoResponse ]

\* rateLimit(config)(request) on the store st at time t: the store it leaves
\* and the response it returns (NoResponse for null)
rateLimit(config, r, st, t) ==
    LET key == RateLimitKey(r) IN
    IF key \notin DOMAIN st \/ WindowOver(st[key], t)
    THEN [ store    |-> StorePut(st, key, [count |-> 1, resetTime |-> t + config.windowMs]),
           response |-> NoResponse ]
    ELSE IF OverLimit(st[key], config)
    THEN [ store    |-> st,
           response |-> TooManyRequests(st[key], config, t) ]
    ELSE [ store    |-> StorePut(st, key, [st[key] EXCEPT !.count = @ + 1]),
           response |-> NoResponse ]

ContentSecurityPolicy ==
    "default-src 'self'; "
    \o "script-src 'self' 'unsafe-inline' 'unsafe-eval' https://www.googletagmanager.com https://www.google-analytics.com https://static.hotjar.com; "
    \o "style-src 'self' 'unsafe-inline' https://fonts.googleapis.com; "
    \o "font-src 'self' https://fonts.gstatic.com; "
    \o "img-src 'self' data: https: blob:; "
    \o "media-src 'self' https:; "
    \o "connect-src 'self' https: wss: ws:; "
    \o "object-src 'none'; "
    \o "base-uri 'self'; "
    \o "form-action 'self'; "
    \o "frame-ancestors 'none'; "
    \o "upgrade-insecure-requests"

\* the names getSecurityHeaders() returns
SecurityHeaderNames ==
    { "Content-Security-Policy", "X-Content-Type-Options", "X-Frame-Options",
      "X-XSS-Protection", "Referrer-Policy", "Permissions-Policy",
      "Strict-Transport-Security", "Server", "X-Powered-By" }

getSecurityHeaders ==
    [h \in SecurityHeaderNames |->
        CASE h = "Content-Security-Policy"   -> ContentSecurityPolicy
          [] h = "X-Content-Type-Options"    -> "nosniff"
          [] h = "X-Frame-Options"           -> "DENY"
          [] h = "X-XSS-Protection"          -> "1; mode=block"
          [] h = "Referrer-Policy"           -> "strict-origin-when-cross-origin"
          [] h = "Permissions-Policy"        -> "camera=(), microphone=(), geolocation=(), interest-cohort=()"
          [] h = "Strict-Transport-Security" -> "max-age=63072000; includeSubDomains; preload"
          [] h = "Server"                    -> ""
          [] h = "X-Powered-By"              -> ""]

\* [env.NEXT_PUBLIC_APP_URL, 'http://localhost:3000', 'https://localhost:3000'].filter(Boolean)
allowedOrigins(e) ==
    { o \in {e.NEXT_PUBLIC_APP_URL, "http://localhost:3000", "https://localhost:3000"} :
        o # NULL /\ o # "" }

\* any origin that is sent is allowed
OriginAllowed_Any(origin, e) == origin # NULL /\ origin # ""

\* origin && allowedOrigins.includes(origin)
OriginAllowed(origin, e) == origin # NULL /\ origin # "" /\ origin \in allowedOrigins(e)

\* configureCORS(request, response), on the response's headers
configureCORS(r, h, e) ==
    LET h1 == IF OriginAllowed(r.origin, e)
              THEN SetHeader(h, "Access-Control-Allow-Origin", r.origin) ELSE h
        h2 == SetHeader(h1, "Access-Control-Allow-Methods", "GET, POST, PUT, DELETE, OPTIONS")
        h3 == SetHeader(h2, "Access-Control-Allow-Headers", "Content-Type, Authorization, X-Requested-With")
        h4 == SetHeader(h3, "Access-Control-Max-Age", "86400")
    IN  SetHeader(h4, "Access-Control-Allow-Credentials", "true")

\* logSecurityEvent(event, details) called without the request
logSecurityEvent_NoRequest(event, details, r, e) ==
    [ event     |-> event,
      details   |-> details,
      ip        |-> "unknown",
      userAgent |-> "unknown",
      console   |-> IF e.NODE_ENV = "production" THEN "warn" ELSE "log" ]

\* the log entry of logSecurityEvent(event, details, request), without its
\* timestamp, and the console method that prints it
logSecurityEvent(event, details, r, e) ==
    [ event     |-> event,
      details   |-> details,
      ip        |-> getClientIP(r),
      userAgent |-> IF r.userAgent # NULL /\ r.userAgent # "" THEN r.userAgent ELSE "unknown",
      console   |-> IF e.NODE_ENV = "production" THEN "warn" ELSE "log" ]

-----------------------------------------------------------------------------
(* middleware.ts *)

apiRateLimit ==
    [windowMs |-> 15 * 60 * 1000, maxRequests |-> 100, message |-> "Too many API requests from this IP"]

authRateLimit ==
    [windowMs |-> 15 * 60 * 1000, maxRequests |-> 5, message |-> "Too many authentication attempts"]

generalRateLimit ==
    [windowMs |-> 60 * 1000, maxRequests |-> 60, message |-> "Too many requests from this IP"]

\* the /api/ branch tested before the /api/auth/ branch
RateLimitType_ApiFirst(pathname) ==
    IF StartsWith(pathname, "/api/") THEN "api"
    ELSE IF StartsWith(pathname, "/api/auth/") THEN "auth"
    ELSE "general"

\* the branch of the rate limiting block a path takes: the 'type' it logs
RateLimitType(pathname) ==
    IF StartsWith(pathname, "/api/auth/") THEN "auth"
    ELSE IF StartsWith(pathname, "/api/") THEN "api"
    ELSE "general"

\* the limiter that branch calls
RateLimitOf(type) ==
    CASE type = "auth" -> authRateLimit
      [] type = "api"  -> apiRateLimit
      [] OTHER         -> generalRateLimit

\* pathname.startsWith('/api'): CORS is configured, OPTIONS is answered at once
IsApiRoute(pathname) == StartsWith(pathname, "/api")

IsPreflight(r) == IsApiRoute(r.path) /\ r.method = "OPTIONS"

\* pathname.startsWith('/admin') || pathname.startsWith('/moderator')
IsSensitiveArea(pathname) == StartsWith(pathname, "/admin") \/ StartsWith(pathname, "/moderator")

\* request.headers.get('user-agent') || ''
UserAgentOf(r) == IF r.userAgent = NULL THEN "" ELSE r.userAgent

suspiciousPatterns == {"bot", "crawler", "spider", "scraper", "scanner"}

legitimateBots ==
    {"googlebot", "bingbot", "slurp", "duckduckbot", "facebookexternalhit", "twitterbot", "linkedinbot"}

\* patterns.some(pattern => pattern.test(s)), s in lower case for the /i flag
SomeTest(patterns, lower) == \E p \in patterns : Includes(lower, p)

\* no exemption for the legitimate crawlers
isSuspicious_NoExemption(userAgent) == SomeTest(suspiciousPatterns, ToLower(userAgent))

isSuspicious(userAgent) ==
    LET lower == ToLower(userAgent) IN
    SomeTest(suspiciousPatterns, lower) /\ ~ SomeTest(legitimateBots, lower)

\* isSuspicious, worked out once for each user agent of the model
isSuspiciousOf == [ua \in ModelUserAgents |-> isSuspicious(ua)]

\* the patterns keep their state from one evaluation to the next (as shared
\* patterns with a /g flag do): every other evaluation does not match
BotBlocked_Stateful(r) ==
    /\ isSuspiciousOf[UserAgentOf(r)]
    /\ ~ StartsWith(r.path, "/api/robots")
    /\ ~ StartsWith(r.path, "/api/sitemap")
    /\ (StartsWith(r.path, "/admin") \/ StartsWith(r.path, "/api/"))
    /\ LET key == RateLimitKey(r) IN key \in DOMAIN store => store[key].count % 2 = 0

\* the condition under which the bot block answers 403
BotBlocked(r) ==
    /\ isSuspiciousOf[UserAgentOf(r)]
    /\ ~ StartsWith(r.path, "/api/robots")
    /\ ~ StartsWith(r.path, "/api/sitemap")
    /\ (StartsWith(r.path, "/admin") \/ StartsWith(r.path, "/api/"))

MaxContentLength == 10 * 1024 * 1024

\* parseInt, worked out once for each content-length of the model
ParseIntOf == [s \in ModelContentLengths |-> ParseInt(s)]

\* contentLength && parseInt(contentLength) > 10 * 1024 * 1024
TooLarge(r) ==
    /\ r.contentLength # NULL
    /\ r.contentLength # ""
    /\ Greater(ParseIntOf[r.contentLength], MaxContentLength)

\* suspiciousUrlPatterns.some(pattern => pattern.test(pathname))
MaliciousUrl(pathname) ==
    \/ Includes(pathname, "..")
    \/ Includes(pathname, "/etc/passwd")
    \/ Includes(pathname, "/windows/system32")
    \/ TestI(pathname, "<script")
    \/ TestIThen(pathname, "union", "select")
    \/ TestI(pathname, "eval(")

\* MaliciousUrl, worked out once for each path of the model
MaliciousUrlOf == [p \in ModelPaths |-> MaliciousUrl(p)]

\* new NextResponse(text, { status }): no headers of the gate are passed on
PlainResponse(status, text) ==
    [ status  |-> status,
      headers |-> EmptyHeaders,
      body    |-> [text |-> text, error |-> NULL, retryAfter |-> -1] ]

\* response.headers after getSecurityHeaders() are set on NextResponse.next()
WithSecurityHeaders(h) ==
    [k \in DOMAIN h \cup SecurityHeaderNames |->
        IF k \in SecurityHeaderNames THEN getSecurityHeaders[k] ELSE h[k]]

\* the headers set for /admin and /moderator paths
WithAdminHeaders(h) ==
    LET h1 == SetHeader(h, "X-Frame-Options", "SAMEORIGIN")
        h2 == SetHeader(h1, "Cache-Control", "no-store, no-cache, must-revalidate, proxy-revalidate")
        h3 == SetHeader(h2, "Pragma", "no-cache")
    IN  SetHeader(h3, "Expires", "0")

\* the timestamp header is left out
WithTraceHeaders_NoTime(h, r, id, t, e) ==
    LET h1 == SetHeader(h, "X-Request-ID", id)
    IN  IF e.NODE_ENV = "development"
        THEN SetHeader(SetHeader(h1, "X-Environment", "development"), "X-Debug-IP", getClientIP(r))
        ELSE h1

\* the debug headers are set in every mode
WithTraceHeaders_Debug(h, r, id, t, e) ==
    LET h1 == SetHeader(h, "X-Request-ID", id)
        h2 == SetHeader(h1, "X-Response-Time", ToString(t))
    IN  SetHeader(SetHeader(h2, "X-Environment", e.NODE_ENV), "X-Debug-IP", getClientIP(r))

\* request id, timestamp and the development-only headers of a passed request
WithTraceHeaders(h, r, id, t, e) ==
    LET h1 == SetHeader(h, "X-Request-ID", id)
        h2 == SetHeader(h1, "X-Response-Time", ToString(t))
    IN  IF e.NODE_ENV = "development"
        THEN SetHeader(SetHeader(h2, "X-Environment", "development"), "X-Debug-IP", getClientIP(r))
        ELSE h2

\* the places of the handler at which an exception can be raised: while the
\* headers and CORS are computed (lines 25-43), inside the limiter (the calls
\* at lines 49, 61, 73), inside logSecurityEvent, inside the threat checks
\* (lines 103-169)
FaultPoints == {"headers", "rateLimit", "audit", "classify"}

NoFault == "none"

\* middleware() did not return: the exception left it
Thrown ==
    [ status  |-> -1,
      headers |-> EmptyHeaders,
      body    |-> [text |-> "uncaught exception", error |-> NULL, retryAfter |-> -1] ]

\* console.error('Rate limiting error:', error) of the catch block
RateLimitingError == "Rate limiting error:"

\* the statements after the try block (lines 88-185), reached with the
\* headers h1, the store st and the console errors `printed` so far
afterRateLimit(r, id, st, t, e, point, h1, printed) ==
    LET pathname == r.path
        ip       == getClientIP(r)
        admin    == IsSensitiveArea(pathname)
        h2       == IF admin THEN WithAdminHeaders(h1) ELSE h1
        log2     == IF admin
                    THEN << logSecurityEvent("admin_access_attempt",
                                             [path |-> pathname, ip |-> ip], r, e) >>
                    ELSE << >>
        thrown(log) == [response |-> Thrown, store |-> st, audit |-> log, errors |-> printed]
        rejected(status, text, event, details) ==
            IF point = "audit"
            THEN thrown(log2)
            ELSE [ response |-> PlainResponse(status, text),
                   store    |-> st,
                   audit    |-> Append(log2, logSecurityEvent(event, details, r, e)),
                   errors   |-> printed ]
    IN
    IF admin /\ point = "audit"
    THEN thrown(<< >>)
    ELSE IF point = "classify"
    THEN thrown(log2)
    ELSE IF BotBlocked(r)
    THEN rejected(403, "Access Denied", "suspicious_bot_blocked",
                  [userAgent |-> UserAgentOf(r), path |-> pathname, ip |-> ip])
    ELSE IF TooLarge(r)
    THEN rejected(413, "Request Too Large", "large_request_blocked",
                  [contentLength |-> r.contentLength, path |-> pathname, ip |-> ip])
    ELSE IF MaliciousUrlOf[pathname]
    THEN rejected(400, "Bad Request", "malicious_url_blocked",
                  [path |-> pathname, ip |-> ip])
    ELSE [ response |-> [status |-> 200, headers |-> WithTraceHeaders(h2, r, id, t, e), body |-> NoBody],
           store    |-> st,
           audit    |-> log2,
           errors   |-> printed ]

\* the try block (lines 45-86) and what follows it: rl is what the limiter
\* of the path returns when it does not throw
fromRateLimit(r, id, st, t, e, point, h1, rl) ==
    IF point = "rateLimit"
    THEN \* thrown inside the limiter before the store is written, caught at line 83
         afterRateLimit(r, id, st, t, e, point, h1, << RateLimitingError >>)
    ELSE IF rl.response = NoResponse
    THEN afterRateLimit(r, id, rl.store, t, e, point, h1, << >>)
    ELSE IF point = "audit"
    THEN \* logSecurityEvent throws inside the try block: the 429 is not returned
         afterRateLimit(r, id, rl.store, t, e, point, h1, << RateLimitingError >>)
    ELSE [ response |-> rl.response,
           store    |-> rl.store,
           audit    |-> << logSecurityEvent("rate_limit_exceeded",
                             [endpoint |-> r.path, ip |-> getClientIP(r),
                              type |-> RateLimitType(r.path)], r, e) >>,
           errors   |-> << >> ]

\* middleware(request) on the store st at time t, with id the UUID drawn for
\* the request and an exception raised at the place `point` if the handler
\* gets there: the response, the store it leaves, the events it logs and the
\* errors it prints
middlewareUnder(r, id, st, t, e, point) ==
    LET pathname == r.path
        h0       == WithSecurityHeaders(EmptyHeaders)
        h1       == IF IsApiRoute(pathname) THEN configureCORS(r, h0, e) ELSE h0
    IN
    IF point = "headers"
    THEN [response |-> Thrown, store |-> st, audit |-> << >>, errors |-> << >>]
    ELSE IF IsPreflight(r)
    THEN [ response |-> [status |-> 200, headers |-> h1, body |-> NoBody],
           store    |-> st,
           audit    |-> << >>,
           errors   |-> << >> ]
    ELSE fromRateLimit(r, id, st, t, e, point, h1,
                       rateLimit(RateLimitOf(RateLimitType(pathname)), r, st, t))

\* middleware(request) when nothing throws
middleware(r, id, st, t, e) == middlewareUnder(r, id, st, t, e, NoFault)

-----------------------------------------------------------------------------
(* The state machine: the clock advances, requests are handled one at a    *)
(* time (the handler is synchronous).                                       *)

EmptyStore == [k \in {} |-> NoRecord]

Request(method, path, ip, origin, userAgent, contentLength) ==
    [ method |-> method, path |-> path,
      xff |-> NULL, realIp |-> NULL, cfIp |-> NULL, ip |-> ip,
      origin |-> origin, userAgent |-> userAgent, contentLength |-> contentLength ]

NoRequest == Request(NULL, NULL, NULL, NULL, NULL, NULL)

\* the invocations of the limiter that can be in progress together
CallIds == {"c1", "c2"}

\* no verdict of the threat checks is kept
NoVerdict == [path |-> NULL, userAgent |-> NULL, contentLength |-> NULL, status |-> 0]

\* an invocation that has not started or has returned
Idle == [pc |-> "idle"]

Development == [NODE_ENV |-> "development", NEXT_PUBLIC_APP_URL |-> "http://localhost:3000"]

Production == [NODE_ENV |-> "production", NEXT_PUBLIC_APP_URL |-> "https://astralcore.io"]

\* the configuration of Scenario A, with no message of its own
ScenarioA == [windowMs |-> 60000, maxRequests |-> 2, message |-> NULL]

\* steps of the clock: the next millisecond, the end of a window, one short of it
Delays == {1, 59999, 60000, 900000}

RequestIds == {"3f0e5c1a-0000-4000-8000-000000000001"}

\* the gate after the module is loaded
InitGate(envs, limiters) ==
    /\ now = 0
    /\ store = EmptyStore
    /\ env \in envs
    /\ limiter \in limiters
    /\ req = NoRequest
    /\ at = 0
    /\ before = NoRecord
    /\ resp = NoResponse
    /\ audit = << >>
    /\ nth = [k \in {} |-> 0]
    /\ ticks = 0
    /\ fault = NoFault
    /\ errors = << >>
    /\ calls = [c \in CallIds |-> Idle]
    /\ accepted = [k \in {} |-> 0]
    /\ earlier = NoVerdict
    /\ accepts = [type \in {"auth", "api", "general"} |-> << >>]

\* process.argv[2], or the argument of an exported function: a string, or
\* undefined when the script is run without an argument
Argument(s) == [given |-> TRUE, value |-> s]

NoArgument == [given |-> FALSE, value |-> ""]

\* the deployment verifier is not run
VerifierIdle ==
    /\ called = "none"
    /\ baseUrl = NoArgument
    /\ pc = "idle"
    /\ test = 0
    /\ attempt = 0
    /\ tried = << >>
    /\ results = << >>
    /\ exitCode = -1
    /\ phases = << >>

InitWith(envs, limiters) == InitGate(envs, limiters) /\ VerifierIdle

\* Date.now() advances by d
Tick(d) ==
    /\ ticks < MaxTicks
    /\ now' = now + d
    /\ ticks' = ticks + 1
    /\ UNCHANGED <<store, env, limiter, req, at, before, resp, audit, nth, fault, errors,
                   calls, accepted, earlier, accepts>>
    /\ UNCHANGED verifierVars

RecordOf(st, key) == IF key \in DOMAIN st THEN st[key] ELSE NoRecord

\* the number of times kept for a traffic class: one more than twice the
\* maxRequests of its limiter
TimesKept(type) == 2 * RateLimitOf(type).maxRequests + 1

\* the times of a traffic class with the time t added, the oldest dropped
\* beyond TimesKept
Timed(history, type, t) ==
    LET all == Append(history[type], t)
        n   == Len(all)
        k   == TimesKept(type)
    IN  [history EXCEPT ![type] = IF n > k THEN SubSeq(all, n - k + 1, n) ELSE all]

\* the gate handles request r, an exception being raised at the place f;
\* the times of the requests let through are kept (timed) or not
Serve(r, id, f, timed) ==
    \E out \in {middlewareUnder(r, id, store, now, env, f)} :
    /\ req' = r
    /\ at' = now
    /\ before' = RecordOf(store, RateLimitKey(r))
    /\ resp' = out.response
    /\ store' = out.store
    /\ audit' = out.audit
    /\ fault' = f
    /\ errors' = out.errors
    /\ accepts' = IF timed /\ out.response.status = 200
                  THEN Timed(accepts, RateLimitType(r.path), now)
                  ELSE accepts
    /\ UNCHANGED <<now, env, limiter, nth, ticks, calls, accepted, earlier>>
    /\ UNCHANGED verifierVars

\* the gate handles request r, an exception being raised at the place f
HandleUnder(r, id, f) == Serve(r, id, f, FALSE)

\* the gate handles request r
Handle(r, id) == HandleUnder(r, id, NoFault)

\* the history of a key after the limiter, alone on the store, left the
\* store st2 for a request of that key: calls since the record was created
\* (every = TRUE) or accepted calls (every = FALSE, ok: this one was accepted)
Counted(history, key, st2, every, ok) ==
    LET fresh == key \notin DOMAIN store \/ st2[key].resetTime # store[key].resetTime
        n     == IF fresh \/ key \notin DOMAIN history THEN 0 ELSE history[key]
    IN  [k \in DOMAIN history \cup {key} |->
            IF k = key THEN (IF every \/ ok THEN n + 1 ELSE n) ELSE history[k]]

\* the limiter built from the configuration `limiter` is called on request r
Limit(r) ==
    \E out \in {rateLimit(limiter, r, store, now)} :
    LET key == RateLimitKey(r) IN
    /\ req' = r
    /\ at' = now
    /\ before' = RecordOf(store, key)
    /\ resp' = out.response
    /\ store' = out.store
    /\ audit' = << >>
    /\ nth' = Counted(nth, key, out.store, TRUE, TRUE)
    /\ accepted' = Counted(accepted, key, out.store, FALSE, out.response = NoResponse)
    /\ fault' = NoFault
    /\ errors' = << >>
    /\ UNCHANGED <<now, env, limiter, ticks, calls, earlier, accepts>>
    /\ UNCHANGED verifierVars

\* the model follows a client while its record counts less than bound, and
\* again once the record's window is over
Followed(r, bound) ==
    LET key == RateLimitKey(r) IN
    key \in DOMAIN store => (store[key].count < bound \/ now > store[key].resetTime)

FollowedAlone(r) ==
    LET key == RateLimitKey(r) IN
    key \in DOMAIN nth => (nth[key] < MaxNth \/ now > store[key].resetTime)

ClockTick == \E d \in Delays : Tick(d)

-----------------------------------------------------------------------------
(* The limiter on its own, with one configuration for the whole run *)

LimiterRequests ==
    { Request("GET", "/", ip, NULL, "Mozilla/5.0", NULL) : ip \in {"10.0.0.1", "10.0.0.2"} }

LimiterCall == \E r \in LimiterRequests : FollowedAlone(r) /\ Limit(r)

InitLimiter == InitWith({Production}, {ScenarioA, authRateLimit})

NextLimiter == LimiterCall \/ ClockTick

SpecLimiter == InitLimiter /\ [][NextLimiter]_vars

-----------------------------------------------------------------------------
(* The limiter under concurrent requests.  An invocation reads the clock    *)
(* and the record of its key (lines 16-20), then decides and writes (lines  *)
(* 22-53).  The function is synchronous: JavaScript runs an invocation to   *)
(* its return before it starts another one.                                 *)

\* every invocation is let in at any time, as if the limiter awaited
\* between its read and its write
Scheduled_Preemptive(c) == TRUE

\* invocation c may run: no other invocation is inside the limiter
Scheduled(c) == \A d \in CallIds \ {c} : calls[d].pc = "idle"

\* lines 16-20: the key, Date.now() and rateLimitStore.get(key)
Enter(c, r) ==
    /\ calls[c].pc = "idle"
    /\ Scheduled(c)
    /\ calls' = [calls EXCEPT ![c] =
                    [pc |-> "read", req |-> r, now |-> now,
                     record |-> RecordOf(store, RateLimitKey(r))]]
    /\ UNCHANGED <<now, store, env, limiter, req, at, before, resp, audit, nth, ticks,
                   fault, errors, accepted, earlier, accepts>>
    /\ UNCHANGED verifierVars

\* the store as the invocation saw it when it read the record of key
SeenStore(key, record) ==
    IF record = NoRecord
    THEN [k \in DOMAIN store \ {key} |-> store[k]]
    ELSE StorePut(store, key, record)

\* lines 22-53: the decision on what was read, the write and the return
Return(c) ==
    LET r   == calls[c].req
        key == RateLimitKey(r)
    IN
    /\ calls[c].pc = "read"
    /\ Scheduled(c)
    /\ \E out \in {rateLimit(limiter, r, SeenStore(key, calls[c].record), calls[c].now)} :
       \E st2 \in {IF out.response = NoResponse THEN StorePut(store, key, out.store[key]) ELSE store} :
          /\ req' = r
          /\ at' = calls[c].now
          /\ before' = calls[c].record
          /\ resp' = out.response
          /\ store' = st2
          /\ nth' = Counted(nth, key, st2, TRUE, TRUE)
          /\ accepted' = Counted(accepted, key, st2, FALSE, out.response = NoResponse)
    /\ audit' = << >>
    /\ fault' = NoFault
    /\ errors' = << >>
    /\ calls' = [calls EXCEPT ![c] = Idle]
    /\ UNCHANGED <<now, env, limiter, ticks, earlier, accepts>>
    /\ UNCHANGED verifierVars

ConcurrentEnter == \E c \in CallIds : \E r \in LimiterRequests : FollowedAlone(r) /\ Enter(c, r)

ConcurrentReturn == \E c \in CallIds : Return(c)

NextConcurrent == ConcurrentEnter \/ ConcurrentReturn \/ ClockTick

InitConcurrent == InitWith({Production}, {ScenarioA})

SpecConcurrent == InitConcurrent /\ [][NextConcurrent]_vars

-----------------------------------------------------------------------------
(* The gate under rate limiting: one client, one request per traffic class, *)
(* followed until every limiter has rejected.                               *)

RateRequests ==
    { Request("GET", p, "10.0.0.1", NULL, "Mozilla/5.0", NULL) :
        p \in {"/", "/api/users", "/api/auth/login"} }

GateRequest == \E r \in RateRequests : \E id \in RequestIds : Handle(r, id)

\* the gate builds its limiters itself
NoLimiter == [windowMs |-> 0, maxRequests |-> 0, message |-> NULL]

Init == InitWith({Production}, {NoLimiter})

Next == GateRequest \/ ClockTick

Spec == Init /\ [][Next]_vars

-----------------------------------------------------------------------------
(* The gate under bursts: one client alternates between a page and the      *)
(* login route, the clock passing the end of the page's window.             *)

BurstRequests ==
    { Request("GET", p, "10.0.0.1", NULL, "Mozilla/5.0", NULL) :
        p \in {"/", "/api/auth/login"} }

BurstRequest ==
    \E r \in BurstRequests : \E id \in RequestIds :
        Followed(r, MaxCount) /\ Serve(r, id, NoFault, TRUE)

\* the clock passes the end of the window of generalRateLimit
MinuteTick == Tick(generalRateLimit.windowMs + 1)

NextBurst == BurstRequest \/ MinuteTick

SpecBurst == Init /\ [][NextBurst]_vars

-----------------------------------------------------------------------------
(* The store under either use of the limiters: one limiter called on its    *)
(* own for the whole run, or the gate with its three limiters.              *)

InitCounts == InitWith({Production}, {NoLimiter, ScenarioA, authRateLimit})

AloneCall == limiter # NoLimiter /\ LimiterCall

GateCall == limiter = NoLimiter /\ GateRequest

NextCounts == AloneCall \/ GateCall \/ ClockTick

SpecCounts == InitCounts /\ [][NextCounts]_vars

-----------------------------------------------------------------------------
(* The gate under threats: every method, path, user agent and size *)

ThreatRequests ==
    { Request(m, p, "10.0.0.1", NULL, ua, cl) :
        m  \in {"GET", "OPTIONS"},
        p  \in { "/", "/admin/x", "/api/users", "/api/robots",
                 "/etc/passwd", "/api/auth/..%2f..%2fetc/passwd" },
        ua \in {NULL, "Mozilla/5.0", "Googlebot", "curl-scraper/1.0"},
        cl \in {NULL, "11000000"} }

ThreatRequest ==
    \E r \in ThreatRequests : \E id \in RequestIds : Followed(r, MaxCount) /\ Handle(r, id)

\* the clock passes the end of every window
LongTick == Tick(900001)

NextThreat == ThreatRequest \/ LongTick

SpecThreat == Init /\ [][NextThreat]_vars

-----------------------------------------------------------------------------
(* The gate in development and in production: the same requests under the   *)
(* two values of env.NODE_ENV, everything else of the environment the same. *)

Modes == {"development", "production"}

Environments == { [NODE_ENV |-> m, NEXT_PUBLIC_APP_URL |-> "https://astralcore.io"] : m \in Modes }

EnvRequests ==
    { Request(m, p, "10.0.0.1", o, ua, cl) :
        m  \in {"GET", "OPTIONS"},
        p  \in {"/", "/admin/x", "/api/auth/login", "/api/..%2fetc/passwd"},
        o  \in {NULL, "https://astralcore.io"},
        ua \in {"Mozilla/5.0", "curl-scraper/1.0"},
        cl \in {NULL, "11000000"} }

EnvRequest ==
    \E r \in EnvRequests : \E id \in RequestIds : Followed(r, MaxCount) /\ Handle(r, id)

InitEnv == InitWith(Environments, {NoLimiter})

NextEnv == EnvRequest \/ LongTick

SpecEnv == InitEnv /\ [][NextEnv]_vars

-----------------------------------------------------------------------------
(* The gate under exceptions: a request is handled with an exception raised *)
(* at one place of the handler, or at none.                                 *)

FaultRequests ==
    { Request("GET", p, "10.0.0.1", NULL, ua, cl) :
        p  \in {"/", "/admin/x", "/api/users", "/api/auth/login", "/api/..%2fetc/passwd"},
        ua \in {"Mozilla/5.0", "curl-scraper/1.0"},
        cl \in {NULL, "11000000"} } \cup
    { Request("OPTIONS", "/api/users", "10.0.0.1", NULL, "Mozilla/5.0", NULL) }

FaultRequest ==
    \E r \in FaultRequests : \E id \in RequestIds : \E f \in FaultPoints \cup {NoFault} :
        Followed(r, MaxCount) /\ HandleUnder(r, id, f)

NextFault == FaultRequest \/ LongTick

SpecFault == Init /\ [][NextFault]_vars

-----------------------------------------------------------------------------
(* The threat checks evaluated again and again: the same path, user agent   *)
(* and size arrive with another method, at other times and counts, and the  *)
(* verdict of one earlier evaluation is kept.                               *)

PureRequests ==
    { Request(m, p, "10.0.0.1", NULL, ua, cl) :
        m  \in {"GET", "POST"},
        p  \in {"/admin/x", "/api/auth/login", "/api/auth/..%2f..%2fetc/passwd"},
        ua \in {"Mozilla/5.0", "curl-scraper/1.0"},
        cl \in {NULL, "11000000"} }

PureRequest ==
    \E r \in PureRequests : \E id \in RequestIds : Followed(r, MaxCount) /\ Handle(r, id)

\* the request handled last got to the threat checks and was decided by them
Classified == req # NoRequest /\ ~ IsPreflight(req) /\ resp.status \in {200, 403, 413, 400}

\* the verdict on the request handled last is kept
Remember ==
    /\ earlier = NoVerdict
    /\ Classified
    /\ earlier' = [ path |-> req.path, userAgent |-> req.userAgent,
                 contentLength |-> req.contentLength, status |-> resp.status ]
    /\ UNCHANGED <<now, store, env, limiter, req, at, before, resp, audit, nth, ticks,
                   fault, errors, calls, accepted, accepts>>
    /\ UNCHANGED verifierVars

NextPure == PureRequest \/ Remember \/ LongTick

SpecPure == Init /\ [][NextPure]_vars

-----------------------------------------------------------------------------
(* The identity of the client: requests to the admin area in development,   *)
(* where the identity shows in the key of the record, in the audit event    *)
(* and in the X-Debug-IP header.  Every client sends one request.           *)

ForwardedFors ==
    {NULL, "", "<null>", "10.0.0.1", "10.0.0.2, 10.0.0.3", "\f10.0.0.4 ,10.0.0.5", ",10.0.0.6"}

IdentityRequests ==
    { [Request("GET", "/admin/x", ip, NULL, "Mozilla/5.0", NULL)
          EXCEPT !.xff = xff, !.realIp = realIp, !.cfIp = cfIp] :
        xff    \in ForwardedFors,
        realIp \in {NULL, "", "10.0.0.7"},
        cfIp   \in {NULL, "", "10.0.0.8"},
        ip     \in {NULL, "10.0.0.9"} }

IdentityRequest ==
    \E r \in IdentityRequests : \E id \in RequestIds :
        /\ RateLimitKey(r) \notin DOMAIN store
        /\ Cardinality(DOMAIN store) < MaxClients
        /\ Handle(r, id)

InitIdentity == InitWith({Development}, {NoLimiter})

NextIdentity == IdentityRequest

SpecIdentity == InitIdentity /\ [][NextIdentity]_vars

-----------------------------------------------------------------------------
(* The gate under CORS: every origin, on API routes and pages *)

Unconfigured == [NODE_ENV |-> "production", NEXT_PUBLIC_APP_URL |-> NULL]

CorsRequests ==
    { Request(m, p, "10.0.0.1", o, ua, NULL) :
        m  \in {"GET", "OPTIONS"},
        p  \in {"/", "/api/users", "/api/auth/login"},
        o  \in { NULL, "", "http://localhost:3000", "https://localhost:3000",
                 "https://astralcore.io", "https://evil.example", "http://localhost:3000/" },
        ua \in {"Mozilla/5.0"} }

CorsRequest ==
    \E r \in CorsRequests : \E id \in RequestIds : Followed(r, MaxCount) /\ Handle(r, id)

InitCors == InitWith({Development, Production, Unconfigured}, {NoLimiter})

\* the CORS headers do not depend on the clock: it stands still
NextCors == CorsRequest

SpecCors == InitCors /\ [][NextCors]_vars

-----------------------------------------------------------------------------
(* scripts/verify-deployment.js: the deployment verifier.  One run of the   *)
(* script, from main or from one of the functions it exports; a step runs   *)
(* the script from one await to the next.                                   *)

CONFIG == [timeout |-> 30000, retries |-> 3, retryDelay |-> 5000]

TESTS ==
    << [ name |-> "Homepage Load Test", path |-> "/", expectedStatus |-> 200,
         expectedContent |-> <<"AstralCore", "Hyperdrive">> ],
       [ name |-> "API Health Check", path |-> "/api/health", expectedStatus |-> 200,
         expectedContent |-> <<"status", "ok">> ],
       [ name |-> "Dashboard Route Test", path |-> "/dashboard", expectedStatus |-> 200,
         expectedContent |-> <<"dashboard">> ],
       [ name |-> "Sitemap Test", path |-> "/api/sitemap", expectedStatus |-> 200,
         expectedContent |-> <<"xml", "urlset">> ],
       [ name |-> "Robots.txt Test", path |-> "/api/robots", expectedStatus |-> 200,
         expectedContent |-> <<"User-agent", "Allow">> ] >>

\* makeRequest rejects: new URL(url) throws, req.on('error') or the timeout
Rejected(message) == [settled |-> "rejected", message |-> message, status |-> 0, body |-> ""]

\* makeRequest resolves with {status, headers, body}
Resolved(status, body) == [settled |-> "resolved", message |-> "", status |-> status, body |-> body]

\* the bodies the deployment answers a test with: none of the expected
\* content, a part of it, all of it (in another case)
ModelBodies ==
    << {"", "<h1>AstralCore</h1>", "ASTRALCORE HYPERDRIVE"},
       {"", "status: error", "STATUS: OK"},
       {"", "Dashboard"},
       {"", "<?xml version?>", "<?XML?><urlset>"},
       {"", "allow: /", "USER-AGENT: * ALLOW: /"} >>

\* what makeRequest can give an attempt of test i once the request is sent
Outcomes(i) ==
    {Rejected("Request timeout"), Resolved(503, "")}
        \cup { Resolved(200, b) : b \in ModelBodies[i] }

\* new URL(url) throws in makeRequest (line 67): no request is sent
InvalidUrl == Rejected("Invalid URL")

\* the first expected content that bodyLower does not include, NULL when it
\* includes them all (the for loop of lines 123-127, from content i on)
RECURSIVE MissingContent(_, _, _)
MissingContent(bodyLower, contents, i) ==
    IF i > Len(contents) THEN NULL
    ELSE IF ~ Includes(bodyLower, toLowerCase(contents[i])) THEN contents[i]
    ELSE MissingContent(bodyLower, contents, i + 1)

\* the message of the error that the try block of runTest throws on what
\* makeRequest gave, NULL when it throws none (for a body and expected
\* contents that toLowerCase is defined for)
FailureOf(t, outcome) ==
    IF outcome.settled = "rejected" THEN outcome.message
    ELSE IF outcome.status # t.expectedStatus
    THEN "Expected status " \o ToString(t.expectedStatus) \o ", got " \o ToString(outcome.status)
    ELSE LET missing == MissingContent(toLowerCase(outcome.body), t.expectedContent, 1) IN
         IF missing = NULL THEN NULL
         ELSE "Expected content \"" \o missing \o "\" not found in response"

FailureTable ==
    [i \in 1..Len(TESTS) |-> [o \in Outcomes(i) \cup {InvalidUrl} |-> FailureOf(TESTS[i], o)]]

\* line 134: attempt < CONFIG.retries
ShouldRetry(n) == n < CONFIG.retries

IsLetter(c) ==
    \/ LowerChar(c) # c
    \/ c \in {"a", "b", "c", "d", "e", "f", "g", "h", "i", "j", "k", "l", "m",
              "n", "o", "p", "q", "r", "s", "t", "u", "v", "w", "x", "y", "z"}

IsSchemeChar(c) == IsLetter(c) \/ IsDigit(c, 10) \/ c \in {"+", "-", "."}

-----------------------------------------------------------------------------
(* new URL(u) without a base: whether the URL parser of Node.js (the URL    *)
(* standard) fails.  The host of a special scheme is modelled for domains   *)
(* of ASCII characters without a label xn--, as are all the URLs of the     *)
(* model; see ValidHost.                                                    *)

\* s without its first n characters
Rest(s, n) == SubSeq(s, n + 1, Len(s))

RECURSIVE StripStart(_, _)
StripStart(s, chars) ==
    IF Len(s) > 0 /\ CharAt(s, 1) \in chars THEN StripStart(Rest(s, 1), chars) ELSE s

RECURSIVE StripEnd(_, _)
StripEnd(s, chars) ==
    IF Len(s) > 0 /\ CharAt(s, Len(s)) \in chars THEN StripEnd(SubSeq(s, 1, Len(s) - 1), chars) ELSE s

\* the URL parser drops every tab and newline of its input
RECURSIVE WithoutTabsAndNewlines(_)
WithoutTabsAndNewlines(s) ==
    IF Len(s) = 0 THEN ""
    ELSE IF CharAt(s, 1) \in {"\t", "\n", "\r"} THEN WithoutTabsAndNewlines(Rest(s, 1))
    ELSE CharAt(s, 1) \o WithoutTabsAndNewlines(Rest(s, 1))

\* s up to its first character among ends
RECURSIVE Until(_, _)
Until(s, ends) ==
    IF Len(s) = 0 \/ CharAt(s, 1) \in ends THEN ""
    ELSE CharAt(s, 1) \o Until(Rest(s, 1), ends)

\* s.split(sep)
RECURSIVE Split(_, _)
Split(s, sep) ==
    LET first == Until(s, {sep}) IN
    IF Len(first) = Len(s) THEN << s >>
    ELSE << first >> \o Split(Rest(s, Len(first) + 1), sep)

\* every character of s is a digit of the radix
AllDigits(s, radix) == \A i \in 1..Len(s) : IsDigit(CharAt(s, i), radix)

\* the number the digits of s write, of any size, as its part above 16 bits
\* (hi, held as 65536 when it is more) and its lower 16 bits (lo)
RECURSIVE Limbs(_, _, _, _)
Limbs(s, radix, hi, lo) ==
    IF Len(s) = 0 THEN [hi |-> hi, lo |-> lo]
    ELSE LET l == lo * radix + DigitValue(CharAt(s, 1))
             h == hi * radix + l \div 65536
         IN  Limbs(Rest(s, 1), radix, IF h > 65536 THEN 65536 ELSE h, l % 65536)

\* the parts of a host between its dots, an empty last part left out
Parts(s) ==
    LET parts == Split(s, ".") IN
    IF Len(parts) > 1 /\ parts[Len(parts)] = "" THEN SubSeq(parts, 1, Len(parts) - 1) ELSE parts

\* the IPv4 number parser: 0x or 0X writes a number of radix 16, another
\* leading 0 one of radix 8; ok is FALSE when the parser fails
Ipv4Number(part) ==
    LET hex    == Len(part) >= 2 /\ SubSeq(part, 1, 2) \in {"0x", "0X"}
        octal  == ~ hex /\ Len(part) >= 2 /\ CharAt(part, 1) = "0"
        radix  == IF hex THEN 16 ELSE IF octal THEN 8 ELSE 10
        digits == IF hex THEN Rest(part, 2) ELSE IF octal THEN Rest(part, 1) ELSE part
        ok     == part # "" /\ AllDigits(digits, radix)
    IN  [ok |-> ok, n |-> IF ok THEN Limbs(digits, radix, 0, 0) ELSE [hi |-> 0, lo |-> 0]]

\* the IPv4 parser: at most four numbers, each but the last at most 255, the
\* last one below 256^(5 - the number of parts)
Ipv4(host) ==
    LET parts   == Parts(host)
        size    == Len(parts)
        numbers == [i \in 1..size |-> Ipv4Number(parts[i])]
        last    == numbers[size].n
    IN  /\ size <= 4
        /\ \A i \in 1..size : numbers[i].ok
        /\ \A i \in 1..(size - 1) : numbers[i].n.hi = 0 /\ numbers[i].n.lo <= 255
        /\ CASE size = 1 -> last.hi < 65536
             [] size = 2 -> last.hi < 256
             [] size = 3 -> last.hi = 0
             [] size = 4 -> last.hi = 0 /\ last.lo <= 255

\* the ends-in-a-number checker
EndsInNumber(host) ==
    LET parts == Parts(host)
        last  == parts[Len(parts)]
    IN  (last # "" /\ AllDigits(last, 10)) \/ Ipv4Number(last).ok

\* the IPv4 address that ends an IPv6 address: four decimal numbers up to
\* 255 without a leading zero
Ipv4InIpv6(s) ==
    LET parts == Split(s, ".") IN
    /\ Len(parts) = 4
    /\ \A i \in 1..4 :
          /\ parts[i] # ""
          /\ AllDigits(parts[i], 10)
          /\ Len(parts[i]) > 1 => CharAt(parts[i], 1) # "0"
          /\ Len(parts[i]) <= 3
          /\ Limbs(parts[i], 10, 0, 0).lo <= 255

\* the loop of the IPv6 parser at the start of a piece: s is what is left of
\* the input, pieceIndex the number of pieces read, compress whether "::"
\* was read
RECURSIVE Ipv6Pieces(_, _, _)
Ipv6Pieces(s, pieceIndex, compress) ==
    IF Len(s) = 0 THEN compress \/ pieceIndex = 8
    ELSE IF pieceIndex = 8 THEN FALSE
    ELSE IF CharAt(s, 1) = ":" THEN ~ compress /\ Ipv6Pieces(Rest(s, 1), pieceIndex + 1, TRUE)
    ELSE LET lengths == {n \in 0..4 : n <= Len(s) /\ AllDigits(SubSeq(s, 1, n), 16)}
             length  == CHOOSE n \in lengths : \A m \in lengths : m <= n
             after   == Rest(s, length)
         IN  IF Len(after) = 0 THEN Ipv6Pieces("", pieceIndex + 1, compress)
             ELSE IF CharAt(after, 1) = "."
             THEN /\ length > 0
                  /\ pieceIndex <= 6
                  /\ Ipv4InIpv6(s)
                  /\ compress \/ pieceIndex + 2 = 8
             ELSE IF CharAt(after, 1) = ":"
             THEN /\ length > 0
                  /\ Len(after) > 1
                  /\ Ipv6Pieces(Rest(after, 1), pieceIndex + 1, compress)
             ELSE FALSE

\* the IPv6 parser on what stands between the square brackets
Ipv6(s) ==
    IF Len(s) > 0 /\ CharAt(s, 1) = ":"
    THEN Len(s) >= 2 /\ CharAt(s, 2) = ":" /\ Ipv6Pieces(Rest(s, 2), 1, TRUE)
    ELSE Ipv6Pieces(s, 0, FALSE)

\* percent-decode, for a string of ASCII: %XX gives the byte XX.  The
\* operator is not defined on a string with the byte 0, the byte 96 or a
\* byte from 128 on (no character of Ascii stands for them)
RECURSIVE PercentDecode(_)
PercentDecode(s) ==
    IF Len(s) = 0 THEN ""
    ELSE IF /\ CharAt(s, 1) = "%"
            /\ Len(s) >= 3
            /\ IsDigit(CharAt(s, 2), 16)
            /\ IsDigit(CharAt(s, 3), 16)
    THEN LET byte == 16 * DigitValue(CharAt(s, 2)) + DigitValue(CharAt(s, 3)) IN
         CASE byte \in DOMAIN Ascii -> Ascii[byte] \o PercentDecode(Rest(s, 3))
    ELSE CharAt(s, 1) \o PercentDecode(Rest(s, 1))

\* the host parser does not fail: an IPv6 address in square brackets, an
\* opaque host (of a scheme that is not special) without a forbidden host
\* code point, or a domain without a forbidden domain code point that is an
\* IPv4 address when it ends in a number.  For a domain the operator is
\* defined when the percent-decoded host is of ASCII characters and none
\* of its labels begins with xn--: domain-to-ASCII then only puts it in
\* lower case.  What domain-to-ASCII makes of any other domain (Punycode,
\* the mapping and the validity of characters outside ASCII) is not modelled
ValidHost(input, isOpaque) ==
    LET forbiddenHost   == {"\t", "\n", "\r", " ", "#", "/", ":", "<", ">", "?", "@",
                            "[", "\\", "]", "^", "|"}
        forbiddenDomain == forbiddenHost \cup {Ascii[n] : n \in 1..31} \cup {"%", Ascii[127]}
        decoded         == PercentDecode(input)
        domain          == ToLower(decoded)
        labels          == Split(domain, ".")
        isPlain         == /\ \A i \in 1..Len(decoded) :
                                  \E n \in DOMAIN Ascii : Ascii[n] = CharAt(decoded, i)
                           /\ \A k \in 1..Len(labels) : ~ StartsWith(labels[k], "xn--")
    IN  IF Len(input) > 0 /\ CharAt(input, 1) = "["
        THEN CharAt(input, Len(input)) = "]" /\ Ipv6(SubSeq(input, 2, Len(input) - 1))
        ELSE IF isOpaque
        THEN \A i \in 1..Len(input) : CharAt(input, i) \notin forbiddenHost
        ELSE CASE isPlain ->
                  /\ domain # ""
                  /\ \A i \in 1..Len(domain) : CharAt(domain, i) \notin forbiddenDomain
                  /\ IF EndsInNumber(domain) THEN Ipv4(domain) ELSE TRUE

\* the index of the first colon of s from i on that is outside square
\* brackets, Len(s) + 1 when there is none
RECURSIVE HostEnd(_, _, _)
HostEnd(s, i, insideBrackets) ==
    IF i > Len(s) THEN i
    ELSE IF CharAt(s, i) = ":" /\ ~ insideBrackets THEN i
    ELSE HostEnd(s, i + 1, IF CharAt(s, i) = "[" THEN TRUE
                           ELSE IF CharAt(s, i) = "]" THEN FALSE ELSE insideBrackets)

\* the authority, host and port states do not fail on the authority a:
\* credentials up to the last @, a host, and after a colon a port of
\* digits up to 65535 (defined for the hosts ValidHost is defined for)
ValidAuthority(a, isSpecial) ==
    LET ats      == {i \in 1..Len(a) : CharAt(a, i) = "@"}
        lastAt   == IF ats = {} THEN 0 ELSE CHOOSE i \in ats : \A j \in ats : j <= i
        hostport == Rest(a, lastAt)
        end      == HostEnd(hostport, 1, FALSE)
        host     == SubSeq(hostport, 1, end - 1)
        port     == IF end <= Len(hostport) THEN Rest(hostport, end) ELSE ""
    IN  IF lastAt > 0 /\ hostport = "" THEN FALSE
        ELSE IF end <= Len(hostport)
        THEN /\ host # ""
             /\ ValidHost(host, ~ isSpecial)
             /\ AllDigits(port, 10)
             /\ Limbs(port, 10, 0, 0).hi = 0
        ELSE /\ IF isSpecial THEN host # "" ELSE TRUE
             /\ ValidHost(host, ~ isSpecial)

\* new URL(u) does not throw.  C0 controls and spaces around the input and
\* tabs and newlines inside it are dropped; a scheme and a colon must
\* follow; then the host of file://host, the authority of a special scheme
\* (after any slashes) or the authority after the // of another scheme must
\* parse.  A path, a query and a fragment never fail.  Defined for the URLs
\* whose host ValidHost is defined for.
ValidUrl(u) ==
    LET c0     == {Ascii[n] : n \in 1..32}
        v      == WithoutTabsAndNewlines(StripEnd(StripStart(u, c0), c0))
        length == Len(Until(v, {":"}))
        scheme == ToLower(SubSeq(v, 1, length))
        rest   == IF length < Len(v) THEN Rest(v, length + 1) ELSE ""
        slash  == {"/", "\\"}
        host   == Until(Rest(rest, 2), {"/", "\\", "?", "#"})
    IN  /\ length >= 1
        /\ length < Len(v)
        /\ IsLetter(CharAt(v, 1))
        /\ \A j \in 1..length : IsSchemeChar(CharAt(v, j))
        /\ IF scheme = "file"
           THEN IF Len(rest) >= 2 /\ CharAt(rest, 1) \in slash /\ CharAt(rest, 2) \in slash
                THEN \/ host = ""
                     \/ Len(host) = 2 /\ IsLetter(CharAt(host, 1)) /\ CharAt(host, 2) \in {":", "|"}
                     \/ ValidHost(host, FALSE)
                ELSE TRUE
           ELSE IF scheme \in {"http", "https", "ws", "wss", "ftp"}
           THEN ValidAuthority(Until(StripStart(rest, slash), {"/", "\\", "?", "#"}), TRUE)
           ELSE IF StartsWith(rest, "//")
           THEN ValidAuthority(Until(Rest(rest, 2), {"/", "?", "#"}), FALSE)
           ELSE TRUE

ModelBaseUrls ==
    { NoArgument, Argument(""), Argument("\n"), Argument("astralcore.io"), Argument("http://"),
      Argument("https://"), Argument(" http://localhost:3000"), Argument("https://astralcore.io") }

\* `${baseUrl}`
Text(u) == IF u.given THEN u.value ELSE "undefined"

\* new URL(url) for the base URLs of the model and for the URLs that
\* runTest (line 110) and performanceTest (line 187) make of them
ValidUrlOf ==
    [url \in {b.value : b \in ModelBaseUrls}
               \cup {Text(b) \o path : b \in ModelBaseUrls,
                                       path \in {TESTS[i].path : i \in 1..Len(TESTS)} \cup {"/"}}
        |-> ValidUrl(url)]

\* !baseUrl
Missing(u) == ~ u.given \/ u.value = ""

\* the functions a run can call: main (node verify-deployment.js) and the
\* exported verifyDeployment, performanceTest and sslCheck (module.exports)
EntryPoints == {"main", "verifyDeployment", "performanceTest", "sslCheck"}

\* an exported function is called with any argument
InitVerifier ==
    /\ InitGate({Production}, {NoLimiter})
    /\ called \in EntryPoints
    /\ baseUrl \in ModelBaseUrls
    /\ pc = "start"
    /\ test = 0
    /\ attempt = 0
    /\ tried = << >>
    /\ results = << >>
    /\ exitCode = -1
    /\ phases = << >>

\* process.exit(code)
Exit(code) ==
    /\ pc' = "exited"
    /\ exitCode' = code

\* the function called returns: main has reported completion, an exported
\* function has given control back to its caller
Returns(phase) ==
    /\ pc' = IF called = "main" THEN "completed" ELSE "returned"
    /\ phases' = IF called = "main" THEN Append(phase, "completed") ELSE phase
    /\ UNCHANGED exitCode

\* verifyDeployment up to the first makeRequest of runTest (lines 147-154,
\* 109-113)
StartVerification ==
    /\ pc' = "request"
    /\ test' = 1
    /\ attempt' = 1
    /\ phases' = Append(phases, "verification")
    /\ UNCHANGED exitCode

\* main, lines 254-275: the checks of the base URL, then verifyDeployment
Main ==
    /\ called = "main"
    /\ pc = "start"
    /\ IF Missing(baseUrl) \/ ~ ValidUrlOf[baseUrl.value]
       THEN /\ Exit(1)
            /\ UNCHANGED <<test, attempt, phases>>
       ELSE StartVerification
    /\ UNCHANGED <<called, baseUrl, tried, results>>
    /\ UNCHANGED gateVars

\* verifyDeployment is called by another module: no check of the argument
CallVerifyDeployment ==
    /\ called = "verifyDeployment"
    /\ pc = "start"
    /\ StartVerification
    /\ UNCHANGED <<called, baseUrl, tried, results>>
    /\ UNCHANGED gateVars

\* the summary of verifyDeployment (lines 158-178) on the results rs
Summary(rs) ==
    LET failed == Cardinality({i \in 1..Len(rs) : ~ rs[i].success})
    IN  Exit(IF failed > 0 THEN 1 ELSE 0)

\* runTest returns result to the for loop of verifyDeployment, which runs
\* the next test up to its makeRequest, or prints the summary and exits
Finish(result) ==
    /\ results' = Append(results, result)
    /\ IF test < Len(TESTS)
       THEN /\ test' = test + 1
            /\ attempt' = 1
            /\ pc' = "request"
            /\ UNCHANGED exitCode
       ELSE /\ Summary(Append(results, result))
            /\ UNCHANGED <<test, attempt>>

\* makeRequest, waiting in runTest or in performanceTest, has sent a request:
\* new URL(url) did not throw
Sent ==
    /\ pc \in {"request", "performance"}
    /\ ValidUrlOf[Text(baseUrl) \o (IF pc = "request" THEN TESTS[test].path ELSE "/")]

\* the makeRequest of runTest settles (lines 113-144)
RequestSettles ==
    /\ pc = "request"
    /\ \E outcome \in (IF Sent THEN Outcomes(test) ELSE {InvalidUrl}) :
       \E failure \in {FailureTable[test][outcome]} :
          /\ tried' = IF attempt = 1 THEN << outcome >> ELSE Append(tried, outcome)
          /\ IF failure = NULL
             THEN Finish([success |-> TRUE, test |-> TESTS[test].name, error |-> NULL])
             ELSE IF ShouldRetry(attempt)
             THEN /\ pc' = "delay"
                  /\ UNCHANGED <<test, attempt, results, exitCode>>
             ELSE Finish([success |-> FALSE, test |-> TESTS[test].name, error |-> failure])
    /\ UNCHANGED <<called, baseUrl, phases>>
    /\ UNCHANGED gateVars

\* the timer of CONFIG.retryDelay fires: runTest(baseUrl, test, attempt + 1)
TimerFires ==
    /\ pc = "delay"
    /\ pc' = "request"
    /\ attempt' = attempt + 1
    /\ UNCHANGED <<called, baseUrl, test, tried, results, exitCode, phases>>
    /\ UNCHANGED gateVars

\* a callback of makeRequest throws outside the promise (data += chunk,
\* line 87, on a body longer than a string can be): the handler of
\* uncaughtException (lines 282-285) ends the process
UncaughtException ==
    /\ Sent
    /\ Exit(1)
    /\ UNCHANGED <<called, baseUrl, test, attempt, tried, results, phases>>
    /\ UNCHANGED gateVars

\* the connection is cut in the middle of the body: no 'end' of the
\* response, no 'error' and no 'timeout' of the request, so the promise of
\* makeRequest stays pending; the script run by node has nothing left to
\* wait for and ends with status 0
ResponseCut ==
    /\ Sent
    /\ pc' = "abandoned"
    /\ exitCode' = IF called = "main" THEN 0 ELSE exitCode
    /\ UNCHANGED <<called, baseUrl, test, attempt, tried, results, phases>>
    /\ UNCHANGED gateVars

\* performanceTest up to its makeRequest (lines 182-187)
StartPerformance ==
    /\ pc' = "performance"
    /\ phases' = Append(phases, "performance")
    /\ UNCHANGED exitCode

\* sslCheck up to its request (lines 202-246): baseUrl.startsWith throws on
\* undefined and the promise of sslCheck is rejected; a base URL that is not
\* an https one is skipped; new URL(baseUrl) throws inside the try and the
\* catch (line 248) reports it; else the request is sent
StartSsl(phase) ==
    IF ~ baseUrl.given
    THEN /\ pc' = "rejected"
         /\ UNCHANGED <<exitCode, phases>>
    ELSE IF ~ StartsWith(baseUrl.value, "https://")
    THEN Returns(Append(phase, "ssl skipped"))
    ELSE IF ~ ValidUrlOf[baseUrl.value]
    THEN Returns(Append(phase, "ssl"))
    ELSE /\ pc' = "ssl"
         /\ phases' = Append(phase, "ssl")
         /\ UNCHANGED exitCode

\* performanceTest is called by another module
CallPerformanceTest ==
    /\ called = "performanceTest"
    /\ pc = "start"
    /\ StartPerformance
    /\ UNCHANGED <<called, baseUrl, test, attempt, tried, results>>
    /\ UNCHANGED gateVars

\* sslCheck is called by another module
CallSslCheck ==
    /\ called = "sslCheck"
    /\ pc = "start"
    /\ StartSsl(phases)
    /\ UNCHANGED <<called, baseUrl, test, attempt, tried, results>>
    /\ UNCHANGED gateVars

\* the caller of sslCheck does not handle the rejection: the handler of
\* unhandledRejection (lines 287-290) ends the process
UnhandledRejection ==
    /\ pc = "rejected"
    /\ Exit(1)
    /\ UNCHANGED <<called, baseUrl, test, attempt, tried, results, phases>>
    /\ UNCHANGED gateVars

\* the makeRequest of performanceTest settles, either way (lines 187-198);
\* in main, sslCheck is next
PerformanceSettles ==
    /\ pc = "performance"
    /\ IF called = "main" THEN StartSsl(phases) ELSE Returns(phases)
    /\ UNCHANGED <<called, baseUrl, test, attempt, tried, results>>
    /\ UNCHANGED gateVars

\* the request of sslCheck gets its response or fails: the promise resolves
SslSettles ==
    /\ pc = "ssl"
    /\ Returns(phases)
    /\ UNCHANGED <<called, baseUrl, test, attempt, tried, results>>
    /\ UNCHANGED gateVars

NextVerifier ==
    \/ Main
    \/ CallVerifyDeployment
    \/ RequestSettles
    \/ TimerFires
    \/ UncaughtException
    \/ ResponseCut
    \/ CallPerformanceTest
    \/ CallSslCheck
    \/ UnhandledRejection
    \/ PerformanceSettles
    \/ SslSettles

SpecVerifier == InitVerifier /\ [][NextVerifier]_vars

\* what the script does by itself: a function that is called runs up to its
\* first request, a timer fires, and a makeRequest whose URL is invalid is
\* rejected.  A request that is sent need not settle: the timeout of
\* makeRequest (line 76) is an idle timeout, and the request of sslCheck
\* (lines 213-246) has none
Unprompted ==
    \/ Main
    \/ CallVerifyDeployment
    \/ CallPerformanceTest
    \/ CallSslCheck
    \/ TimerFires
    \/ ~ Sent /\ (RequestSettles \/ PerformanceSettles)

SpecVerifierFair == SpecVerifier /\ WF_vars(Unprompted)

-----------------------------------------------------------------------------
(* Claims about the limiter on its own (SpecLimiter) *)

\* the request handled last reached a limiter
Limited == req # NoRequest /\ ~ IsPreflight(req)

Accepted == resp = NoResponse

\* C1: with one configuration used alone on the store, the first maxRequests
\* requests of a client in a window are accepted (the limiter returns null)
\* and every later request in that window is rejected with status 429.
C1_BudgetPerWindow ==
    Limited =>
        LET n == nth[RateLimitKey(req)] IN
        /\ n <= limiter.maxRequests => Accepted
        /\ n > limiter.maxRequests => resp.status = 429

\* Scenario A: the third request within 10 ms is rejected, retry after 60 s
C1_Witness ==
    /\ Limited
    /\ limiter = ScenarioA
    /\ nth[RateLimitKey(req)] = 3
    /\ at <= 10
    /\ before.count = 2
    /\ resp.status = 429
    /\ GetHeader(resp.headers, "Retry-After") = "60"

\* C2: a request arriving at or after the reset time of its key's record is
\* accepted and replaces the record by {count: 1, resetTime: now + windowMs},
\* whatever the count was.
C2_ResetAtResetTime ==
    (Limited /\ before # NoRecord /\ at >= before.resetTime) =>
        /\ Accepted
        /\ store[RateLimitKey(req)] = [count |-> 1, resetTime |-> at + limiter.windowMs]

-----------------------------------------------------------------------------
(* Claims about the limiter under concurrent requests (SpecConcurrent) *)

\* C14: whatever the order in which the invocations of concurrent requests
\* run, no increment is lost: the count of every record is the number of
\* requests accepted in its window, and at most maxRequests requests are
\* accepted in one window.
C14_NoLostIncrement ==
    /\ DOMAIN accepted = DOMAIN store
    /\ \A key \in DOMAIN store :
          /\ store[key].count = accepted[key]
          /\ accepted[key] <= limiter.maxRequests

\* both clients have used up their budget through both invocations, one of
\* them is inside the limiter again
C14_Witness ==
    /\ limiter = ScenarioA
    /\ DOMAIN store = {"rate_limit:10.0.0.1", "rate_limit:10.0.0.2"}
    /\ \A key \in DOMAIN store : store[key].count = 2 /\ nth[key] >= 3
    /\ calls["c2"].pc = "read"
    /\ calls["c2"].record.count = 2
    /\ resp.status = 429

-----------------------------------------------------------------------------
(* Claims about the gate under rate limiting (Spec) *)

Handled == req # NoRequest

RetryAfterHeader == ParseInt(GetHeader(resp.headers, "Retry-After")).value

\* C3: on every 429 the Retry-After value is greater than 0 and at most
\* windowMs / 1000 of the policy that produced the rejection.
C3_RetryAfterBounds ==
    (Handled /\ resp.status = 429) =>
        /\ RetryAfterHeader > 0
        /\ RetryAfterHeader * 1000 <= RateLimitOf(RateLimitType(req.path)).windowMs

\* the policy the documentation gives for a path
C10_Policy(path) ==
    IF StartsWith(path, "/api/auth/") THEN [windowMs |-> 15 * 60 * 1000, maxRequests |-> 5]
    ELSE IF StartsWith(path, "/api/") THEN [windowMs |-> 15 * 60 * 1000, maxRequests |-> 100]
    ELSE [windowMs |-> 60 * 1000, maxRequests |-> 60]

\* C10: a request that reaches rate limiting is decided by the policy of its
\* path prefix and by no other: /api/auth/ 5 per 15 minutes, other /api/ 100
\* per 15 minutes, every other path 60 per minute.  A new record gets that
\* policy's window, the record is counted against that policy's maximum, and
\* a rejection reports that maximum.
C10_PolicyByPrefix ==
    Limited =>
        LET policy == C10_Policy(req.path)
            record == store[RateLimitKey(req)]
        IN  IF before = NoRecord \/ at > before.resetTime
            THEN /\ resp.status # 429
                 /\ record = [count |-> 1, resetTime |-> at + policy.windowMs]
            ELSE IF before.count >= policy.maxRequests
            THEN /\ resp.status = 429
                 /\ GetHeader(resp.headers, "X-RateLimit-Limit") = ToString(policy.maxRequests)
                 /\ record = before
            ELSE /\ resp.status # 429
                 /\ record = [before EXCEPT !.count = @ + 1]

\* an API request is rejected at 100, after auth and general requests were
\* rejected at lower counts
C10_Witness ==
    /\ req.path = "/api/users"
    /\ resp.status = 429
    /\ before.count = 100
    /\ GetHeader(resp.headers, "X-RateLimit-Limit") = "100"

\* C11: every rate-limit rejection has status 429, Retry-After equal to
\* ceil((resetTime - now) / 1000) (the least number of whole seconds that
\* reaches the record's reset time), X-RateLimit-Limit equal to the
\* maxRequests of the policy of the path, X-RateLimit-Remaining 0,
\* X-RateLimit-Reset equal to the record's reset time, and a body
\* {error, retryAfter} whose retryAfter is the Retry-After value.
C11_RejectionShape ==
    (Handled /\ resp.status = 429) =>
        LET seconds == RetryAfterHeader IN
        /\ before # NoRecord
        /\ seconds * 1000 >= before.resetTime - at
        /\ (seconds - 1) * 1000 < before.resetTime - at
        /\ GetHeader(resp.headers, "Retry-After") = ToString(seconds)
        /\ GetHeader(resp.headers, "X-RateLimit-Limit") = ToString(C10_Policy(req.path).maxRequests)
        /\ GetHeader(resp.headers, "X-RateLimit-Remaining") = "0"
        /\ GetHeader(resp.headers, "X-RateLimit-Reset") = ToString(before.resetTime)
        /\ resp.body.error \notin {NULL, ""}
        /\ resp.body.text = NULL
        /\ resp.body.retryAfter = seconds

\* an authentication request is rejected one millisecond into a window of
\* 15 minutes: 899.999 s remain, Retry-After is 900
C11_Witness ==
    /\ req.path = "/api/auth/login"
    /\ resp.status = 429
    /\ before.resetTime - at = 899999
    /\ GetHeader(resp.headers, "Retry-After") = "900"
    /\ resp.body.retryAfter = 900
    /\ resp.body.error = "Too many authentication attempts"

-----------------------------------------------------------------------------
(* Claims about the gate under threats (SpecThreat) *)

Rejections == {429, 403, 400, 413}

\* C4: a request with a malicious path is rejected with status 400 in every
\* state of the store, also when its client is over its budget.  Stated for
\* the requests no earlier rule applies to: not a preflight, not oversized,
\* not from a suspicious user agent.
C4_MaliciousPath400 ==
    ( /\ Handled
      /\ MaliciousUrlOf[req.path]
      /\ ~ IsPreflight(req)
      /\ ~ TooLarge(req)
      /\ ~ isSuspiciousOf[UserAgentOf(req)] ) => resp.status = 400

\* C5: a request whose content-length exceeds 10 MiB is rejected with status
\* 413 on every path, for every user agent and state of the store: the size
\* is checked before the path, the user agent and the budget.  Stated for the
\* requests that are not answered as a preflight.
C5_Oversized413 ==
    (Handled /\ TooLarge(req) /\ ~ IsPreflight(req)) => resp.status = 413

\* C6: every rejected response carries the security headers.
C6_RejectionsCarryHeaders ==
    (Handled /\ resp.status \in Rejections) =>
        \A h \in { "Content-Security-Policy", "X-Content-Type-Options", "X-Frame-Options",
                   "Referrer-Policy", "Strict-Transport-Security", "Server", "X-Powered-By" } :
            h \in DOMAIN resp.headers

C9_Signatures == {"bot", "crawler", "spider", "scraper", "scanner"}

\* the user agents of the model with a suspicious signature and no signature
\* of a legitimate crawler
C9_SuspiciousAgents ==
    { ua \in ModelUserAgents :
        /\ \E p \in C9_Signatures : TestI(ua, p)
        /\ ~ \E p \in legitimateBots : TestI(ua, p) }

C9_BotRule(r) ==
    /\ UserAgentOf(r) \in C9_SuspiciousAgents
    /\ ~ StartsWith(r.path, "/api/robots")
    /\ ~ StartsWith(r.path, "/api/sitemap")
    /\ (StartsWith(r.path, "/admin") \/ StartsWith(r.path, "/api/"))

\* the request is not oversized, has no malicious path and was not rejected
\* by the limiter
C9_Applies ==
    /\ Handled
    /\ ~ TooLarge(req)
    /\ ~ MaliciousUrlOf[req.path]
    /\ resp.status # 429

\* C9 as claimed: such a request gets 403 exactly when the bot rule matches,
\* and is allowed otherwise.
C9_BotRuleOriginal ==
    C9_Applies => IF C9_BotRule(req) THEN resp.status = 403 ELSE resp.status = 200

\* C9, amended: a request that is not answered as a preflight (OPTIONS on a
\* path starting with /api), is not oversized, has no malicious path and is
\* within its budget gets 403 exactly when the bot rule matches, and is
\* allowed (200, passed on) otherwise.
C9_BotRuleAmended ==
    (C9_Applies /\ ~ (req.method = "OPTIONS" /\ StartsWith(req.path, "/api"))) =>
        IF C9_BotRule(req)
        THEN resp.status = 403
        ELSE resp.status = 200 /\ "X-Request-ID" \in DOMAIN resp.headers

\* Scenario D
C9_Witness ==
    /\ req.method = "GET"
    /\ req.userAgent = "curl-scraper/1.0"
    /\ req.path = "/api/users"
    /\ req.contentLength = NULL
    /\ resp.status = 403

\* the event that names a rejection
C12_EventOf(status) ==
    CASE status = 429 -> "rate_limit_exceeded"
      [] status = 403 -> "suspicious_bot_blocked"
      [] status = 413 -> "large_request_blocked"
      [] status = 400 -> "malicious_url_blocked"

\* C12: every rejected request (429, 403, 400 or 413) has an audit event
\* logged by its handler before the handler returns the rejection; the event
\* logged last names the reason of the rejection and carries the path, the
\* derived client identity and the user agent ('unknown' when the request
\* has none).
C12_RejectionsAudited ==
    (Handled /\ resp.status \in Rejections) =>
        /\ Len(audit) >= 1
        /\ LET entry == audit[Len(audit)] IN
           /\ entry.event = C12_EventOf(resp.status)
           /\ IF resp.status = 429
              THEN entry.details.endpoint = req.path
              ELSE entry.details.path = req.path
           /\ entry.details.ip = getClientIP(req)
           /\ entry.ip = getClientIP(req)
           /\ entry.userAgent = (IF req.userAgent \in {NULL, ""} THEN "unknown" ELSE req.userAgent)

\* an oversized request to the admin area: the access attempt is logged,
\* then the rejection
C12_Witness ==
    /\ req.path = "/admin/x"
    /\ req.userAgent = "Mozilla/5.0"
    /\ resp.status = 413
    /\ Len(audit) = 2
    /\ audit[1].event = "admin_access_attempt"
    /\ audit[2].event = "large_request_blocked"
    /\ audit[2].details.contentLength = "11000000"
    /\ audit[2].userAgent = "Mozilla/5.0"

\* C17: every OPTIONS request, on any path, is answered with 200 and the
\* computed headers right after headers and CORS; the limiter is not
\* consulted (the record of the client is left as it was) and the threat
\* checks are not run (nothing is logged).
C17_PreflightAnyPath ==
    (Handled /\ req.method = "OPTIONS") =>
        /\ resp.status = 200
        /\ \A h \in SecurityHeaderNames : h \in DOMAIN resp.headers
        /\ RecordOf(store, RateLimitKey(req)) = before
        /\ audit = << >>

\* the no-cache headers of the admin and moderator areas
C18_NoCache ==
    /\ GetHeader(resp.headers, "Cache-Control") = "no-store, no-cache, must-revalidate, proxy-revalidate"
    /\ GetHeader(resp.headers, "Pragma") = "no-cache"
    /\ GetHeader(resp.headers, "Expires") = "0"

\* C18: every response for a path starting with /admin or /moderator,
\* allowed or rejected, carries the no-cache headers.  Stated for the
\* requests with another method than OPTIONS.
C18_AdminNoCache ==
    ( /\ Handled
      /\ req.method # "OPTIONS"
      /\ (StartsWith(req.path, "/admin") \/ StartsWith(req.path, "/moderator")) ) =>
        C18_NoCache

\* the request handled last was passed on: it is no preflight and was not
\* rejected
Allowed == Handled /\ ~ IsPreflight(req) /\ resp.status = 200

\* C19: every allowed response, on every path, carries the fixed values of
\* the security headers.  Stated for the requests with another method than
\* OPTIONS.
C19_FixedHeaders ==
    (Allowed /\ req.method # "OPTIONS") =>
        /\ GetHeader(resp.headers, "X-Content-Type-Options") = "nosniff"
        /\ GetHeader(resp.headers, "X-Frame-Options") = "DENY"
        /\ GetHeader(resp.headers, "Referrer-Policy") = "strict-origin-when-cross-origin"
        /\ StartsWith(GetHeader(resp.headers, "Strict-Transport-Security"), "max-age=63072000")
        /\ GetHeader(resp.headers, "Server") = ""
        /\ GetHeader(resp.headers, "X-Powered-By") = ""

\* C20: every allowed response carries the security headers, a request
\* identifier and the time of the response.
C20_AllowedDecorated ==
    Allowed =>
        /\ \A h \in { "Content-Security-Policy", "X-Content-Type-Options", "X-Frame-Options",
                       "X-XSS-Protection", "Referrer-Policy", "Permissions-Policy",
                       "Strict-Transport-Security", "Server", "X-Powered-By" } :
              GetHeader(resp.headers, h) # NULL
        /\ GetHeader(resp.headers, "Content-Security-Policy") = ContentSecurityPolicy
        /\ GetHeader(resp.headers, "X-Request-ID") \in RequestIds
        /\ GetHeader(resp.headers, "X-Response-Time") = ToString(at)

\* a page is passed on in the second window of its client
C20_Witness ==
    /\ Allowed
    /\ req.path = "/"
    /\ req.method = "GET"
    /\ at = 900001
    /\ before.count = 3
    /\ store[RateLimitKey(req)].count = 1
    /\ GetHeader(resp.headers, "X-Response-Time") = "900001"
    /\ GetHeader(resp.headers, "X-Request-ID") = "3f0e5c1a-0000-4000-8000-000000000001"

\* C21: every request gets one decision, with status 200, 429, 403, 400 or
\* 413, and a rejection status occurs only for its reason: 429 only when
\* the record of the client is unexpired (the request arrives before the
\* reset time of the record: a record expires at now >= resetAt) and counts
\* at least the maxRequests of the policy of the path, 413 only when the
\* content-length is above 10 MiB, 400 only when the path matches a
\* malicious pattern, 403 only when the bot rule matches.
C21_StatusForReason ==
    Handled =>
        /\ resp.status \in {200, 429, 403, 400, 413}
        /\ resp.status = 429 =>
              /\ before # NoRecord
              /\ at < before.resetTime
              /\ before.count >= C10_Policy(req.path).maxRequests
        /\ resp.status = 413 =>
              /\ req.contentLength # NULL
              /\ Greater(ParseInt(req.contentLength), 10 * 1024 * 1024)
        /\ resp.status = 400 =>
              \/ Includes(req.path, "..")
              \/ Includes(req.path, "/etc/passwd")
        /\ resp.status = 403 => C9_BotRule(req)

-----------------------------------------------------------------------------
(* Claims about the gate under exceptions (SpecFault) *)

\* the handler got to the place at which the exception is raised
C13_Raised ==
    /\ Handled
    /\ \/ fault = "headers"
       \/ fault = "rateLimit" /\ ~ IsPreflight(req)
       \/ /\ fault = "classify"
          /\ ~ IsPreflight(req)
          /\ ~ ( /\ before # NoRecord
                 /\ at <= before.resetTime
                 /\ before.count >= C10_Policy(req.path).maxRequests )

\* C13: an exception raised while the gate computes the headers, evaluates
\* the rate limit or classifies the request does not leave the gate: the
\* error is logged and the request is allowed through.  When it is raised in
\* the rate limiting the request is not rate limited (no 429, the record of
\* its client is left as it was) and is decided by the threat checks alone.
C13_FailOpen ==
    C13_Raised =>
        /\ resp # Thrown
        /\ Len(errors) >= 1
        /\ IF fault = "rateLimit"
           THEN /\ resp.status \in {200, 403, 413, 400}
                /\ RecordOf(store, RateLimitKey(req)) = before
           ELSE resp.status = 200

-----------------------------------------------------------------------------
(* Claims about repeated evaluations of the threat checks (SpecPure) *)

\* C15: the verdict of the threat checks (403, 413, 400 or allowed) depends
\* on the path, the user agent and the content-length only: a request that
\* gets to the threat checks has the verdict that an earlier request with
\* the same three values had, whatever was handled in between, whatever the
\* record of the client counts and however often they were evaluated.
C15_SameVerdict ==
    ( /\ Classified
      /\ earlier # NoVerdict
      /\ earlier.path = req.path
      /\ earlier.userAgent = req.userAgent
      /\ earlier.contentLength = req.contentLength ) => resp.status = earlier.status

\* a scraper was blocked on the admin area; after a window has passed and
\* other requests were counted, it is blocked there again on a POST
C15_Witness ==
    /\ Classified
    /\ earlier = [ path |-> "/admin/x", userAgent |-> "curl-scraper/1.0",
                contentLength |-> NULL, status |-> 403 ]
    /\ req.method = "POST"
    /\ req.path = "/admin/x"
    /\ req.userAgent = "curl-scraper/1.0"
    /\ req.contentLength = NULL
    /\ at > 0
    /\ before.count = 3
    /\ resp.status = 403

-----------------------------------------------------------------------------
(* Claims about the identity of the client (SpecIdentity) *)

\* the first comma-separated entry, trimmed, of the x-forwarded-for values
C16_FirstHop(xff) ==
    CASE xff = ""                     -> ""
      [] xff = "10.0.0.1"             -> "10.0.0.1"
      [] xff = "10.0.0.2, 10.0.0.3"   -> "10.0.0.2"
      [] xff = "<null>"               -> "<null>"
      [] xff = "\f10.0.0.4 ,10.0.0.5" -> "10.0.0.4"
      [] xff = ",10.0.0.6"            -> ""

\* the identity the gate used for the request handled last: it names the
\* record, it is logged and, in development, it is sent back
C16_IdentityIs(identity) ==
    /\ ("rate_limit:" \o identity) \in DOMAIN store
    /\ store["rate_limit:" \o identity].resetTime = at + 60000
    /\ audit[1].ip = identity
    /\ GetHeader(resp.headers, "X-Debug-IP") = identity

\* C16 as claimed: the first entry of x-forwarded-for if that header is
\* present, else x-real-ip if present, else cf-connecting-ip if present,
\* else the connection-level address, else 'unknown'.
C16_PriorityOriginal ==
    Handled =>
        C16_IdentityIs(IF req.xff # NULL THEN C16_FirstHop(req.xff)
                       ELSE IF req.realIp # NULL THEN req.realIp
                       ELSE IF req.cfIp # NULL THEN req.cfIp
                       ELSE IF req.ip # NULL THEN req.ip
                       ELSE "unknown")

C16_Given(value) == value # NULL /\ value # ""

\* C16, amended: the first comma-separated entry of x-forwarded-for
\* (trimmed) if that header is present and not empty, else x-real-ip if
\* present and not empty, else cf-connecting-ip if present and not empty,
\* else the connection-level address, else 'unknown'; a lower-priority
\* source is used only when every higher-priority one is absent or empty.
C16_PriorityAmended ==
    Handled =>
        C16_IdentityIs(IF C16_Given(req.xff) THEN C16_FirstHop(req.xff)
                       ELSE IF C16_Given(req.realIp) THEN req.realIp
                       ELSE IF C16_Given(req.cfIp) THEN req.cfIp
                       ELSE IF C16_Given(req.ip) THEN req.ip
                       ELSE "unknown")

\* the first hop of a forwarded request wins over every other source, after
\* a client without any source was handled as 'unknown'
C16_Witness ==
    /\ req.xff = "\f10.0.0.4 ,10.0.0.5"
    /\ req.realIp = "10.0.0.7"
    /\ req.cfIp = "10.0.0.8"
    /\ req.ip = "10.0.0.9"
    /\ DOMAIN store = {"rate_limit:unknown", "rate_limit:10.0.0.4"}
    /\ GetHeader(resp.headers, "X-Debug-IP") = "10.0.0.4"

-----------------------------------------------------------------------------
(* Claims about the gate under CORS (SpecCors) *)

AllowOrigin == GetHeader(resp.headers, "Access-Control-Allow-Origin")

\* the request's Origin is one of the application URL and the two local ones
C7_Listed ==
    /\ req.origin # NULL
    /\ req.origin \in {env.NEXT_PUBLIC_APP_URL, "http://localhost:3000", "https://localhost:3000"}

\* C7: on every path, Access-Control-Allow-Origin is present and equal to the
\* request's Origin if and only if that Origin is in the allow-list.
C7_AllowOriginIffListed ==
    Handled => ((AllowOrigin # NULL /\ AllowOrigin = req.origin) <=> C7_Listed)

\* C8: Access-Control-Allow-Origin is never set for a request with no Origin
\* or with an Origin outside the allow-list, and when it is set its value is
\* the request's Origin.
C8_AllowOriginOnlyListed ==
    (Handled /\ "Access-Control-Allow-Origin" \in DOMAIN resp.headers) =>
        /\ C7_Listed
        /\ resp.headers["Access-Control-Allow-Origin"] = req.origin

\* the application URL is echoed on an API route
C8_Witness ==
    /\ env = Production
    /\ req.path = "/api/users"
    /\ req.origin = "https://astralcore.io"
    /\ resp.status = 200
    /\ AllowOrigin = "https://astralcore.io"

\* C22: every response, on every path, carries Access-Control-Allow-Methods,
\* Access-Control-Allow-Headers, Access-Control-Max-Age = 86400 and
\* Access-Control-Allow-Credentials = true, whether or not the request's
\* Origin is in the allow-list.
C22_FixedCorsHeaders ==
    Handled =>
        /\ GetHeader(resp.headers, "Access-Control-Allow-Methods") # NULL
        /\ GetHeader(resp.headers, "Access-Control-Allow-Headers") # NULL
        /\ GetHeader(resp.headers, "Access-Control-Max-Age") = "86400"
        /\ GetHeader(resp.headers, "Access-Control-Allow-Credentials") = "true"

-----------------------------------------------------------------------------
(* Claims about the gate under bursts (SpecBurst) *)

\* C23: for every traffic class with policy (windowMs = W, maxRequests = N),
\* under any sequence of requests mixing the three classes, at most 2N
\* requests of the class are accepted inside any time interval of length W:
\* of 2N + 1 accepted requests of one class, the last comes at least W after
\* the first.
C23_BurstBound ==
    \A type \in DOMAIN accepts :
        LET times == accepts[type]
            n     == Len(times)
            k     == TimesKept(type)
        IN  n >= k => times[n] - times[n - k + 1] >= RateLimitOf(type).windowMs

-----------------------------------------------------------------------------
(* Claims about the traffic classes of one client (Spec) *)

\* what the limiter of a traffic class answers to the request handled last
\* on the store st at the time the request was handled: whether it accepts,
\* and the end of the window it counts in
C24_Budget(type, st) ==
    LET out == rateLimit(RateLimitOf(type), req, st, at)
        key == RateLimitKey(req)
    IN  [ accepts   |-> out.response = NoResponse,
          resetTime |-> out.store[key].resetTime ]

\* C24: traffic classes have independent budgets: for one client, a request
\* accepted under one class changes neither whether a request of another
\* class is accepted or rejected nor the window that class is counted in.
C24_IndependentBudgets ==
    (Handled /\ resp.status = 200) =>
        \A type \in {"auth", "api", "general"} \ {RateLimitType(req.path)} :
            C24_Budget(type, store) = C24_Budget(type, SeenStore(RateLimitKey(req), before))

-----------------------------------------------------------------------------
(* Claims about the order of the checks of the gate (SpecThreat) *)

\* C25: a request that the threat checks block (oversized body, malicious
\* path or suspicious bot) leaves the store unchanged: it neither creates a
\* record nor increments the count of its client.
C25_BlockedNotCounted ==
    (Handled /\ req.method # "OPTIONS" /\ resp.status \in {413, 400, 403}) =>
        /\ RecordOf(store, RateLimitKey(req)) = before
        /\ store = SeenStore(RateLimitKey(req), before)

\* C26: a request whose path matches a malicious pattern and whose user
\* agent satisfies the bot rule on an /admin or /api/ path is rejected as a
\* malicious path with status 400, not as a suspicious bot with 403 (taken
\* for the requests that reach the threat checks, within their budget and
\* not a preflight, and that the size rule does not reject).
C26_PathBeforeBot ==
    ( /\ Handled
      /\ Includes(req.path, "..") \/ Includes(req.path, "/etc/passwd")
      /\ C9_BotRule(req)
      /\ ~ IsPreflight(req)
      /\ ~ TooLarge(req)
      /\ resp.status # 429 ) =>
        /\ resp.status = 400
        /\ audit[Len(audit)].event = "malicious_url_blocked"

-----------------------------------------------------------------------------
(* Claims about the records of the limiter (SpecLimiter) *)

\* the record of the client of the request handled last is the one that was
\* there before the request: it was not replaced
C27_SameRecord ==
    /\ before # NoRecord
    /\ store[RateLimitKey(req)].resetTime = before.resetTime

\* C27: the count of a record is incremented only by requests arriving
\* strictly before its reset time; a request arriving at or after the reset
\* time never increments the old record but replaces it; and between its
\* creation and its replacement the count of a record never decreases.
C27_CountedBeforeReset ==
    (Limited /\ before # NoRecord) =>
        LET record == store[RateLimitKey(req)] IN
        /\ (C27_SameRecord /\ record.count > before.count) => at < before.resetTime
        /\ at >= before.resetTime =>
              record = [count |-> 1, resetTime |-> at + limiter.windowMs]
        /\ C27_SameRecord => record.count >= before.count

\* C28: the reset time of a record is set once, when the record is created,
\* and no later request of its key, accepted or rejected, changes it: a call
\* of the limiter leaves the records of the other keys alone, changes the
\* reset time of its key only by replacing a record whose reset time has
\* passed by a new one, and changes no record at all when it answers 429.
C28_FixedWindow ==
    [][ ticks' = ticks =>
          LET key == RateLimitKey(req') IN
          /\ \A k \in DOMAIN store :
                /\ k \in DOMAIN store'
                /\ k # key => store'[k] = store[k]
                /\ (k = key /\ store'[k].resetTime # store[k].resetTime) =>
                      /\ at' > store[k].resetTime
                      /\ store'[k] = [count |-> 1, resetTime |-> at' + limiter.windowMs]
          /\ resp'.status = 429 => store' = store ]_vars

\* a record created at time 0 was counted again later and then rejected a
\* request: its reset time is still the one it was created with
C28_Witness ==
    /\ Limited
    /\ limiter = ScenarioA
    /\ at = 59999
    /\ resp.status = 429
    /\ before = [count |-> 2, resetTime |-> 60000]
    /\ store[RateLimitKey(req)] = before
    /\ Cardinality(DOMAIN store) = 2

\* C29: if a request of a client is rejected with 429 and Retry-After = r at
\* time t, the next request of that client under the same policy, arriving
\* at time t + r * 1000 ms with no other request of the client in between,
\* is accepted.
C29_RetryAccepted ==
    [][ ( /\ ticks' = ticks
          /\ Limited
          /\ resp.status = 429
          /\ RateLimitKey(req') = RateLimitKey(req)
          /\ at' = at + RetryAfterHeader * 1000 ) => resp' = NoResponse ]_vars

-----------------------------------------------------------------------------
(* Claims about failures of the audit log (SpecFault) *)

\* the response the gate returns for the request handled last when no
\* exception is raised, on the store as it was before the request
C30_Expected ==
    middleware(req, CHOOSE id \in RequestIds : TRUE,
               SeenStore(RateLimitKey(req), before), at, env).response

\* C30: an exception raised while an audit event is emitted neither changes
\* the decision of the gate nor reaches the caller: on every rejection path
\* (429, 403, 413, 400) the gate returns the rejection it returns when the
\* emission succeeds.
C30_AuditFailureHarmless ==
    (Handled /\ fault = "audit" /\ C30_Expected.status \in Rejections) =>
        /\ resp # Thrown
        /\ resp = C30_Expected

-----------------------------------------------------------------------------
(* Claims about development and production (SpecEnv) *)

DebugHeaders == {"X-Environment", "X-Debug-IP"}

\* the environment that differs from env in NODE_ENV only
C31_OtherEnv ==
    [env EXCEPT !.NODE_ENV = CHOOSE m \in Modes : m # env.NODE_ENV]

\* what the gate does with the request handled last, on the same store at
\* the same time, in the other mode
C31_OtherRun ==
    middleware(req, CHOOSE id \in RequestIds : TRUE,
               SeenStore(RateLimitKey(req), before), at, C31_OtherEnv)

\* C31: the mode affects the debug headers only: the same request on the
\* same store gets the same status and leaves the same store in development
\* and in production (so two runs on the same requests go through the same
\* stores and statuses), the two responses differ at most in the headers
\* X-Environment and X-Debug-IP, and these appear only in development and
\* only on allowed responses.
C31_DebugHeadersOnly ==
    Handled =>
        LET other == C31_OtherRun IN
        /\ other.store = store
        /\ other.response.status = resp.status
        /\ other.response.body = resp.body
        /\ DOMAIN other.response.headers \ DebugHeaders = DOMAIN resp.headers \ DebugHeaders
        /\ \A h \in DOMAIN resp.headers \ DebugHeaders : other.response.headers[h] = resp.headers[h]
        /\ \A h \in DebugHeaders :
              h \in DOMAIN resp.headers => (env.NODE_ENV = "development" /\ resp.status = 200)

\* in development an allowed request of a client over the budget of the
\* login route: the debug headers are there, and production answers 200 too
C31_Witness ==
    /\ env.NODE_ENV = "development"
    /\ req.path = "/"
    /\ before.count >= 5
    /\ resp.status = 200
    /\ DebugHeaders \subseteq DOMAIN resp.headers
    /\ C31_OtherRun.response.status = 200
    /\ DebugHeaders \cap DOMAIN C31_OtherRun.response.headers = {}

-----------------------------------------------------------------------------
(* Claims about the records of different clients (SpecLimiter) *)

\* the store st with the records of every key but key left out
C32_Own(st, key) == [k \in DOMAIN st \cap {key} |-> st[k]]

\* C32: a request of one client never creates, changes or removes the
\* record of another client, and the decision on it depends only on the
\* record of its own client and the clock: the limiter answers it as it
\* answers on a store that holds no other record.
C32_IdentityIsolation ==
    [][ ticks' = ticks =>
          LET key == RateLimitKey(req') IN
          /\ DOMAIN store' \ {key} = DOMAIN store \ {key}
          /\ \A k \in DOMAIN store \ {key} : store'[k] = store[k]
          /\ resp' = rateLimit(limiter, req', C32_Own(store, key), at').response
          /\ C32_Own(store', key) = rateLimit(limiter, req', C32_Own(store, key), at').store ]_vars

\* one client is over its budget and rejected while the record of the
\* other still counts one request
C32_Witness ==
    /\ Limited
    /\ limiter = ScenarioA
    /\ req.ip = "10.0.0.2"
    /\ resp.status = 429
    /\ "rate_limit:10.0.0.1" \in DOMAIN store
    /\ store["rate_limit:10.0.0.1"].count = 1
    /\ store["rate_limit:10.0.0.2"].count = 2

-----------------------------------------------------------------------------
(* Claims about the counts of the records (SpecCounts) *)

\* the largest maxRequests of the three limiters of the gate: 100
C33_LargestBudget ==
    LET budgets == {apiRateLimit.maxRequests, authRateLimit.maxRequests, generalRateLimit.maxRequests}
    IN  CHOOSE m \in budgets : \A n \in budgets : n <= m

\* C33: in every reachable state every record of the store has count >= 1;
\* with a single policy its count is at most the maxRequests of that policy,
\* and in the gate with its three policies every count is at most 100.
C33_CountBounds ==
    \A key \in DOMAIN store :
        /\ store[key].count >= 1
        /\ limiter # NoLimiter => store[key].count <= limiter.maxRequests
        /\ limiter = NoLimiter => store[key].count <= C33_LargestBudget

\* the gate has counted a hundred requests of a client and rejects the next
\* API request
C33_Witness ==
    /\ limiter = NoLimiter
    /\ Handled
    /\ req.path = "/api/users"
    /\ before.count = 100
    /\ store[RateLimitKey(req)].count = 100
    /\ resp.status = 429

-----------------------------------------------------------------------------
(* Claims about the keys of the store (SpecLimiter) *)

\* C34: once a key has a record in the store, a record of that key exists
\* in every later state: no step removes a key, the passing of time changes
\* no record (an expired record stays until its own key sends a request),
\* and a call adds the key of its client and no other, so the set of keys
\* never shrinks and grows with every new client.
C34_NoEviction ==
    [][ /\ DOMAIN store \subseteq DOMAIN store'
        /\ ticks' # ticks => store' = store
        /\ ticks' = ticks => DOMAIN store' = DOMAIN store \cup {RateLimitKey(req')} ]_vars

\* the record of one client has expired and is still there when another
\* client sends its first request, which adds a second key
C34_Witness ==
    /\ Limited
    /\ req.ip = "10.0.0.2"
    /\ before = NoRecord
    /\ DOMAIN store = {"rate_limit:10.0.0.1", "rate_limit:10.0.0.2"}
    /\ at > store["rate_limit:10.0.0.1"].resetTime

-----------------------------------------------------------------------------
(* Claims about the deployment verifier (SpecVerifierFair, SpecVerifier) *)

\* the test that the attempts in tried belong to: the test that has just
\* returned, or the one that is running
C35_Test ==
    IF attempt = 1 /\ pc \in {"request", "exited", "abandoned"} THEN Len(results) ELSE test

\* runTest has just returned the last of the results
C35_Returned ==
    /\ Len(results) >= 1
    /\ (pc = "exited" /\ Len(results) = Len(TESTS)) \/ (pc = "request" /\ attempt = 1)

\* the attempt got the expected status and all the expected content
C35_Got(outcome, t) ==
    /\ outcome.settled = "resolved"
    /\ outcome.status = t.expectedStatus
    /\ \A i \in 1..Len(t.expectedContent) :
          Includes(toLowerCase(outcome.body), toLowerCase(t.expectedContent[i]))

C35_GotTable ==
    [i \in 1..Len(TESTS) |-> [o \in Outcomes(i) \cup {InvalidUrl} |-> C35_Got(o, TESTS[i])]]

\* runTest makes at most CONFIG.retries (3) attempts for one test, retries
\* only after a failed attempt, returns success if and only if one of its
\* attempts got the expected status and all the expected content, and
\* returns failure exactly when all 3 attempts failed
C35_Attempts ==
    /\ attempt <= CONFIG.retries
    /\ Len(tried) <= CONFIG.retries
    /\ tried # << >> =>
          /\ \A i \in 1..(Len(tried) - 1) : ~ C35_GotTable[C35_Test][tried[i]]
          /\ C35_Returned =>
                LET result == results[Len(results)]
                    got    == \E i \in 1..Len(tried) : C35_GotTable[C35_Test][tried[i]]
                IN  /\ result.test = TESTS[C35_Test].name
                    /\ result.success <=> got
                    /\ ~ result.success <=>
                          /\ Len(tried) = CONFIG.retries
                          /\ \A i \in 1..Len(tried) : ~ C35_GotTable[C35_Test][tried[i]]

\* C35: runTest makes at most CONFIG.retries (3) attempts for one test,
\* retries only after a failed attempt, always terminates, and returns
\* success if and only if one of its attempts got the expected status and
\* all the expected content; it returns failure exactly when all 3 attempts
\* failed.
C35_RunTestRetries ==
    /\ []C35_Attempts
    /\ \A k \in 1..Len(TESTS) :
          (pc = "request" /\ test = k) ~> (Len(results) >= k)

\* C36: for a valid base URL, main runs the endpoint verification, then the
\* performance test, then the SSL check, and only then reports completion:
\* a run of main whose endpoint verification has finished and that has
\* ended has gone through these phases in this order and has reported
\* completion.
C36_PhasesInOrder ==
    ( /\ called = "main"
      /\ ~ Missing(baseUrl) /\ ValidUrlOf[baseUrl.value]
      /\ Len(results) = Len(TESTS)
      /\ pc \in {"exited", "completed"} ) =>
        /\ pc = "completed"
        /\ \/ phases = << "verification", "performance", "ssl", "completed" >>
           \/ phases = << "verification", "performance", "ssl skipped", "completed" >>

====
